---- MODULE Spec2Model ----
(***************************************************************************)
(* Resilient batch upload engine of the Hycos build-log uploader action.   *)
(*                                                                         *)
(* The repository carries two builds of S3Uploader:                        *)
(*   "src"  - src/src/s3-uploader.ts: static credentials handed to the     *)
(*            constructor, adaptive concurrency, content clearing;         *)
(*   "dist" - src/dist/s3-uploader.js: credentials obtained lazily from a  *)
(*            CredentialsClient, fixed concurrency of 3.                   *)
(* In the "src" build run() first fetches the credentials through          *)
(* HttpClient (src/src/utils/http-client.ts) and then uploads.             *)
(* Time is in milliseconds, sizes are in bytes.                            *)
(***************************************************************************)
EXTENDS Integers, Sequences, FiniteSets, TLC

(* ---------------------------- bounds ----------------------------------- *)
MaxLogs == 3
MaxAttempts == 2
MaxTicks == 1

(* ------------------------- program constants --------------------------- *)
KiB == 1024
MiB == 1024 * 1024
GiB == 1024 * 1024 * 1024
bufferTime == 5 * 60 * 1000
TickMs == 5 * 60 * 1000
CredLifetime == 10 * 60 * 1000
DistConcurrencyLimit == 3
HttpMaxRetryDelay == 30000

ContentSizes == {10 * KiB, 2 * MiB, 11 * MiB}
HeapReadings == {64 * MiB, 512 * MiB}
RetryDelays == {2}
Jitters == {0, 999}

Variants == {"src", "dist"}

(* A credential is identified by the caller whose issuer call obtained it: *)
(* 0 for run(), t for the upload of log t.                                 *)
NoCred == [id |-> -1, expiration |-> 0]
NoError == [status |-> 0, credentialKeyword |-> FALSE, origin |-> "none"]

(* Errors a transfer attempt (upload.done()) can raise. *)
UploadErrors ==
  { [status |-> 400, credentialKeyword |-> FALSE, origin |-> "s3"],
    [status |-> 403, credentialKeyword |-> TRUE,  origin |-> "s3"],
    [status |-> 0,   credentialKeyword |-> FALSE, origin |-> "s3"] }

(* The storage backend fails with one kind of error in a run; a run over a *)
(* single log may see every kind.                                          *)
FaultProfiles == {{}} \cup {{e} : e \in UploadErrors} \cup {UploadErrors}

(* Error raised by initializeS3Client when the issuer call fails. *)
InitError == [status |-> 0, credentialKeyword |-> FALSE, origin |-> "init"]

(* --------------------------- pure helpers ------------------------------ *)
Min(a, b) == IF a < b THEN a ELSE b
Max(a, b) == IF a > b THEN a ELSE b

RECURSIVE SumSizes(_, _)
SumSizes(ls, k) == IF k = 0 THEN 0 ELSE ls[k].size + SumSizes(ls, k - 1)

(* logs.reduce((sum, log) => sum + log.content.length, 0) *)
totalLogSize(ls) == SumSizes(ls, Len(ls))

(* heapLimit * 0.8 - heapUsed with heapLimit = 1.4 GiB, i.e.               *)
(* 1202590842.88 - heapUsed, rounded up to whole bytes: for an integer     *)
(* heapUsed this keeps every comparison with an integer threshold.         *)
getAvailableMemory_noScale(heap) == Max(0, 1503238554 - heap)

getAvailableMemory(heap) == Max(0, 1202590843 - heap)

(* avgLogSize = totalLogSize / logs.length is compared without division:   *)
(* avg > c  iff  total > c * length.                                       *)
adaptiveConcurrency_memoryFirst(ls, heap) ==
  IF getAvailableMemory(heap) > GiB THEN 5
  ELSE IF totalLogSize(ls) > 10 * MiB * Len(ls) THEN 1
  ELSE IF totalLogSize(ls) > MiB * Len(ls) THEN 2
  ELSE 3

adaptiveConcurrency(ls, heap) ==
  IF totalLogSize(ls) > 10 * MiB * Len(ls) THEN 1
  ELSE IF totalLogSize(ls) > MiB * Len(ls) THEN 2
  ELSE IF getAvailableMemory(heap) > GiB THEN 5
  ELSE 3

isCredentialsError(e) == e.credentialKeyword

(* NaN, the number that compares false with every number *)
NaN == -999999

(* the expiration of a credential whose response carried none *)
NoExpiration == -1

(* CredentialsClient.areCredentialsValid: a credential without expiration  *)
(* is taken as valid; an expiration that does not parse as a date gives an *)
(* invalid Date, which compares false with now.                            *)
areCredentialsValid_noBuffer(c, t) ==
  IF c.expiration = NoExpiration THEN TRUE
  ELSE IF c.expiration = NaN THEN FALSE
  ELSE t < c.expiration

areCredentialsValid(c, t) ==
  IF c.expiration = NoExpiration THEN TRUE
  ELSE IF c.expiration = NaN THEN FALSE
  ELSE t < c.expiration - bufferTime

jsLess(a, b) == a # NaN /\ b # NaN /\ a < b
jsTimes(a, b) == IF a = NaN \/ b = NaN THEN NaN ELSE a * b
(* a || b for numbers: 0 and NaN are falsy *)
jsOr(a, b) == IF a = NaN \/ a = 0 THEN b ELSE a

(* delay = Math.min(delay * backoffFactor, maxDelay) *)
nextDelay_uncapped(d, opts) == d * opts.backoffFactor

nextDelay(d, opts) ==
  IF d = NaN THEN NaN ELSE Min(d * opts.backoffFactor, opts.maxDelay)

(* the loop exit test of executeWithRetry's catch block *)
attemptsExhausted_first(attempt, opts) == attempt = 1

attemptsExhausted(attempt, opts) == attempt = opts.maxAttempts

(* ----------------------- parsing of the inputs -------------------------- *)
isDigit(c) == c \in 48..57

(* String.prototype.trim for texts whose only white space is the blank *)
RECURSIVE trimStart(_)
trimStart(s) ==
  IF s # << >> /\ Head(s) = 32 THEN trimStart(Tail(s)) ELSE s

RECURSIVE trimEnd(_)
trimEnd(s) ==
  IF s # << >> /\ s[Len(s)] = 32
  THEN trimEnd(SubSeq(s, 1, Len(s) - 1)) ELSE s

trim(s) == trimEnd(trimStart(s))

(* value of the longest run of decimal digits s starts with, after acc *)
RECURSIVE digitsValue(_, _)
digitsValue(s, acc) ==
  IF s = << >> \/ ~isDigit(Head(s)) THEN acc
  ELSE digitsValue(Tail(s), acc * 10 + (Head(s) - 48))

(* parseInt(s, 10): leading white space, an optional sign, then as many    *)
(* digits as there are; NaN when there is none.                            *)
parseInt(s) ==
  LET t == trimStart(s)
      signed == t # << >> /\ Head(t) \in {43, 45}
      u == IF signed THEN Tail(t) ELSE t IN
  IF u = << >> \/ ~isDigit(Head(u)) THEN NaN
  ELSE IF signed /\ Head(t) = 45 THEN 0 - digitsValue(u, 0)
       ELSE digitsValue(u, 0)

(* core.getInput(name) || fallback: getInput trims, '' is falsy *)
getInputOr(raw, fallback) == IF trim(raw) = << >> THEN fallback ELSE trim(raw)

(* InputValidator.validateRetryAttempts applied to a number: the message   *)
(* of the ValidationError it throws, or "ok".                              *)
retryAttemptsError(attempts) ==
  IF jsLess(attempts, 1) THEN "Retry attempts must be at least 1"
  ELSE IF jsLess(10, attempts)
       THEN "Retry attempts cannot exceed 10 (to prevent infinite loops)"
       ELSE "ok"

(* InputValidator.validateRetryDelay applied to a number *)
retryDelayError(delay) ==
  IF jsLess(delay, 1) THEN "Retry delay must be at least 1 second"
  ELSE IF jsLess(60, delay) THEN "Retry delay cannot exceed 60 seconds"
       ELSE "ok"

(* InputValidator.validateApiKey; a key is given by whether it is set, the *)
(* length of its trimmed text and whether it starts like a placeholder.    *)
apiKeyError(key) ==
  IF ~key.set THEN "API key is required and must be a string"
  ELSE IF key.length = 0 THEN "API key cannot be empty"
  ELSE IF key.length < 10
       THEN "API key appears to be too short (minimum 10 characters)"
  ELSE IF key.length > 500
       THEN "API key appears to be too long (maximum 500 characters)"
  ELSE IF key.placeholder
       THEN "API key appears to be a test/dummy key. Please use a valid API key"
  ELSE "ok"

(* InputValidator.validateApiEndpoint; an endpoint is given by whether it  *)
(* parses as a URL, its protocol and whether its host is a local one.      *)
apiEndpointError(endpoint, act) ==
  IF ~endpoint.url THEN "Invalid API endpoint URL format: Invalid URL"
  ELSE IF endpoint.protocol # "https:"
       THEN "API endpoint must use HTTPS for security"
  ELSE IF endpoint.localHost /\ ~act
       THEN "Localhost endpoints are not allowed in production"
  ELSE "ok"

(* InputValidator.validateGithubToken *)
githubTokenError(token) ==
  IF ~token.set THEN "GitHub token is required and must be a string"
  ELSE IF token.length = 0 THEN "GitHub token cannot be empty"
  ELSE IF ~token.knownFormat /\ token.length < 20
       THEN "GitHub token appears to be too short. Please verify the token format"
  ELSE "ok"

(* InputValidator.validateS3LogPath; a path is given by its text and the   *)
(* features of the text the validator looks at.                            *)
s3LogPathError(path) ==
  IF path.text = "" THEN "ok"
  ELSE IF path.dotdot
       THEN "S3 log path cannot contain path traversal sequences (..))"
  ELSE IF path.leadingSlash
       THEN "S3 log path cannot start with forward slash"
  ELSE IF path.invalidChar THEN "S3 log path contains invalid character: <"
  ELSE IF path.length > 200 THEN "S3 log path cannot exceed 200 characters"
  ELSE "ok"

firstError(messages) ==
  IF \A k \in 1..Len(messages) : messages[k] = "ok" THEN "ok"
  ELSE messages[CHOOSE k \in 1..Len(messages) :
                  /\ messages[k] # "ok"
                  /\ \A j \in 1..(k - 1) : messages[j] = "ok"]

(* retryAttempts and retryDelay as getActionInputs hands them on *)
retryAttemptsOf(inputs) == parseInt(getInputOr(inputs.retryAttempts, << 51 >>))
retryDelayOf(inputs) == parseInt(getInputOr(inputs.retryDelay, << 50 >>))

(* getActionInputs: the message of the error it throws, or "ok".  The run  *)
(* of s3-uploader.ts validates the inputs in the order of validateInputs;  *)
(* the run of index.ts only requires api-key and github-token to be set.   *)
inputsError(version, inputs, act) ==
  IF version = "httpClient"
  THEN firstError(<< apiKeyError(inputs.apiKey),
                     apiEndpointError(inputs.apiEndpoint, act),
                     githubTokenError(inputs.githubToken),
                     retryAttemptsError(retryAttemptsOf(inputs)),
                     retryDelayError(retryDelayOf(inputs)),
                     s3LogPathError(inputs.s3LogPath) >>)
  ELSE IF ~inputs.apiKey.set \/ inputs.apiKey.length = 0
       THEN "Input required and not supplied: api-key"
  ELSE IF ~inputs.githubToken.set \/ inputs.githubToken.length = 0
       THEN "Input required and not supplied: github-token"
  ELSE "ok"

(* the RetryOptions run() builds from the inputs *)
retryOptionsOf(inputs) ==
  [ maxAttempts |-> retryAttemptsOf(inputs),
    initialDelay |-> jsTimes(retryDelayOf(inputs), 1000),
    maxDelay |-> 30000, backoffFactor |-> 2 ]

(* A job name is the sequence of its UTF-16 code units; a timestamp is the *)
(* number of milliseconds new Date(timestamp).getTime() yields.            *)
DayMs == 86400000

(* the character class [a-zA-Z0-9-_] *)
allowedUnit(c) == c \in (48..57) \cup (65..90) \cup (97..122) \cup {45, 95}

(* jobName.replace(/[^a-zA-Z0-9-_]/g, '_'): without the u flag the regular *)
(* expression works on code units.                                         *)
sanitize_dropped(jobName) == SelectSeq(jobName, allowedUnit)

sanitize(jobName) ==
  [k \in 1..Len(jobName) |->
     IF allowedUnit(jobName[k]) THEN jobName[k] ELSE 95]

(* `${s3LogPath}/${date}/${workflowRunId}/${sanitizedJobName}_${suffix}.log` *)
(* as its five interpolated parts; date, the UTC calendar day, is given as *)
(* the number of the day.                                                  *)
generateS3Key(workflowRunId, jobName, timestamp, s3LogPath) ==
  [ s3LogPath |-> s3LogPath, date |-> timestamp \div DayMs,
    workflowRunId |-> workflowRunId, sanitizedJobName |-> sanitize(jobName),
    timestampSuffix |-> timestamp ]

(* logs.slice(i, i + concurrencyLimit), as the set of 1-based positions;   *)
(* start is the 0-based loop index i.                                      *)
sliceOf_wide(start, limit, n) ==
  {k \in 1..n : start < k /\ k <= start + limit + 1}

sliceOf(start, limit, n) == {k \in 1..n : start < k /\ k <= start + limit}

VARIABLES
  variant,          \* which build of S3Uploader runs
  retryOptions,     \* S3Uploader.retryOptions
  heapUsed,         \* process.memoryUsage().heapUsed read by getAvailableMemory
  logs,             \* the LogContent[] handed to uploadAllLogs
  faults,           \* errors the storage backend produces in this run
  issuer,           \* "up": the credential issuer always answers with a
                    \* credential; "flaky": a call to it may also fail
  now,              \* wall clock
  credentials,      \* S3Uploader.credentials
  s3Client,         \* credential the S3Client was built with
  pc,               \* position of run / uploadAllLogs
  i,                \* loop index of uploadAllLogs
  concurrencyLimit, \* concurrencyLimit of uploadAllLogs
  results,          \* results of uploadAllLogs
  errors,           \* errors of uploadAllLogs
  task,             \* per-log state of uploadLogFile / executeWithRetry
  returned,         \* value uploadAllLogs resolved with
  http,             \* HttpClient.executeWithRetry of the credential request
  cloudCredentials, \* what getCloudCredentials returned to run()
  server,           \* statuses the API server answers with in this run
  auth,             \* HttpClientWithRetry.executeWithRetry of the login
  run,              \* locals, outputs and calls of run()
  tokenStorage,     \* MemoryTokenStorage of the AuthClient
  credentialsClient, \* CredentialsClient.refreshCredentialsIfNeeded
  consolidated      \* S3Uploader.uploadConsolidatedLogs

vars == << variant, retryOptions, heapUsed, logs, faults, issuer, now,
           credentials, s3Client,
           pc, i, concurrencyLimit, results, errors, task, returned,
           http, cloudCredentials, server, auth, run,
           tokenStorage, credentialsClient, consolidated >>

(* ----------------------------- records --------------------------------- *)
OkOutcome == [status |-> 200, credentialKeyword |-> FALSE, origin |-> "s3"]

IdleTask ==
  [ st |-> "pending",        \* pending, init, uploading, refreshing,
                             \* sleeping, succeeded, failed
    attempt |-> 0,           \* loop variable of executeWithRetry
    delay |-> 0,             \* delay of executeWithRetry
    lastError |-> NoError,   \* lastError of executeWithRetry
    stale |-> FALSE,         \* the credential of the client the attempt
                             \* uses was past expiration - buffer when the
                             \* attempt started
    calls |-> 0,             \* invocations of operation()
    transfers |-> 0,         \* transfers (upload.done()) started
    sleeps |-> 0,            \* retry delays waited
    refreshes |-> 0,         \* issuer calls made from the catch block
    history |-> << >>,       \* outcomes of the operation() calls so far
    raised |-> NoError,      \* error executeWithRetry rejected with
    keys |-> {},             \* Key of every Upload created for the log
    started |-> FALSE        \* uploadLogFile has been called for the log
  ]

Settled(tk) == tk.st \in {"succeeded", "failed"}

IdleHttp ==
  [ st |-> "idle",           \* idle, inflight, sleeping, returned, raised
    attempt |-> 0, delay |-> 0, lastError |-> 0, totalDelay |-> 0,
    calls |-> 0,             \* requests sent
    sleeps |-> 0,            \* retry delays waited
    history |-> << >> ]      \* status each request settled with

(* locals of HttpClientWithRetry.executeWithRetry *)
IdleAuth ==
  [ st |-> "idle",           \* idle, inflight, sleeping, returned, raised
    attempt |-> 0, delay |-> 0, lastError |-> 0,
    calls |-> 0,             \* requests sent
    sleeps |-> 0 ]           \* retry delays waited

N == Len(logs)
batch == sliceOf(i, concurrencyLimit, N)

(* Statuses a request to the API can settle with; 0 stands for no answer. *)
HttpStatuses == {200, 400, 429, 500, 0}

(* The fields of the credentials response that are present and non-empty. *)
ResponseBodies ==
  [bucket : BOOLEAN, accessKeyId : BOOLEAN, secretAccessKey : BOOLEAN]
NoResponse == [bucket |-> FALSE, accessKeyId |-> FALSE,
               secretAccessKey |-> FALSE, received |-> FALSE]

(* run(): the inputs it was started with, what the environment says about *)
(* the workflow run, the calls it has made to its collaborators, its       *)
(* locals, the outputs it has set, the argument of setFailed, how its      *)
(* promise settled, and the secrets that have appeared in a log line.      *)
NoCalls == [register |-> 0, credentials |-> 0, workflow |-> 0, logs |-> 0,
            notify |-> 0]
NoOutputs == [uploadStatus |-> "unset", notificationStatus |-> "unset",
              filesUploaded |-> 0]

(* run() is waiting for the credentials and the uploader *)
RunIdle ==
  [ version |-> "httpClient", \* "httpClient": run of s3-uploader.ts,
                              \* "axios": run of index.ts
    inputs |-> << >>,
    act |-> FALSE,            \* process.env.ACT === 'true'
    conclusion |-> "failure", \* workflowRun.conclusion, "none" for null
    workflowRunId |-> 1, s3LogPath |-> "logs",
    calls |-> NoCalls,
    uploadStatus |-> "failed", notificationStatus |-> "failed",
    filesUploaded |-> 0,
    notified |-> << >>,       \* uploadedFiles handed to the notifier
    outputs |-> NoOutputs,    \* what setActionOutputs was called with
    failed |-> "none",        \* what setFailed was called with
    settled |-> "pending",    \* pending, resolved, rejected
    logged |-> {} ]

(* MemoryTokenStorage before any login: token and expiry are null.  The   *)
(* tokens of the model are the numbers 1, 2, ... of the logins that       *)
(* stored them.                                                           *)
NullToken == 0
NullExpiry == -1
NoAnswer == [caller |-> "none", result |-> "none"]

NoToken ==
  [ token |-> NullToken, expiry |-> NullExpiry,
    userInfo |-> FALSE,       \* AuthClient.userInfo is set
    logins |-> 0,             \* logins that stored a token
    storedAt |-> 0,           \* the clock at the last setToken
    loggedOut |-> FALSE,      \* logout was called after the last login
    answer |-> NoAnswer ]     \* what the last getToken, isAuthenticated
                              \* or getAuthHeaders answered

(* refreshCredentialsIfNeeded has not been called *)
IdleClient ==
  [ called |-> FALSE,
    turn |-> 0,               \* alternates between 0 and 1 with every call
    issuerCalled |-> FALSE,   \* it called getCloudCredentials
    requested |-> FALSE,      \* getCloudCredentials sent its request
    threw |-> FALSE ]         \* it threw

(* uploadConsolidatedLogs has not been called *)
NoConsolidated ==
  [ st |-> "idle",            \* idle, running, returned, raised
    log |-> [jobName |-> << >>, timestamp |-> 0, size |-> 0,
             content |-> << >>],  \* consolidatedLog
    tk |-> IdleTask,          \* uploadLogFile / executeWithRetry of it
    calls |-> 0,              \* calls of uploadLogFile
    afterBatch |-> FALSE ]    \* uploadAllLogs had returned before

ClientsIdle ==
  /\ tokenStorage = NoToken
  /\ credentialsClient = IdleClient
  /\ consolidated = NoConsolidated

(* retryOptions the constructors fall back to *)
DefaultRetryOptions ==
  [maxAttempts |-> 3, initialDelay |-> 1000, maxDelay |-> 10000,
   backoffFactor |-> 2]

(* ------------------------------ Init ----------------------------------- *)
(* retryOptions as run() builds them from the validated inputs:            *)
(* maxAttempts = retry-attempts, initialDelay = retry-delay * 1000,        *)
(* maxDelay = 30000, backoffFactor = 2.                                    *)
RetryPolicies ==
  { [maxAttempts |-> a, initialDelay |-> d * 1000, maxDelay |-> 30000,
     backoffFactor |-> 2] : a \in 1..MaxAttempts, d \in RetryDelays }

LogLists ==
  { [k \in 1..n |-> [jobName |-> << 48 + k >>, timestamp |-> 0,
                      size |-> sz, content |-> "log"]] :
      n \in 0..MaxLogs, sz \in ContentSizes }

Init ==
  /\ ClientsIdle
  /\ variant \in Variants
  /\ retryOptions \in RetryPolicies
  /\ heapUsed \in HeapReadings
  /\ logs \in LogLists
  /\ faults \in FaultProfiles
  /\ issuer \in {"up", "flaky"}
  \* the src build meets the issuer before the upload only
  /\ variant = "src" => issuer = "flaky"
  \* runs over several logs meet one kind of trouble
  /\ (Len(logs) > 1) => (Cardinality(faults) <= 1)
  /\ (Len(logs) > 1 /\ variant = "dist" /\ issuer = "flaky") => (faults = {})
  /\ now = 0
  /\ credentials = NoCred
  /\ s3Client = NoCred
  /\ i = 0
  /\ concurrencyLimit = 0
  /\ results = << >>
  /\ errors = << >>
  /\ task = [t \in 1..Len(logs) |-> IdleTask]
  /\ returned = << >>
  /\ IF variant = "src"
     THEN /\ pc = "credentials"
          /\ http = [IdleHttp EXCEPT !.st = "inflight", !.attempt = 1,
                       !.calls = 1, !.delay = retryOptions.initialDelay]
     ELSE /\ pc = "constructed"
          /\ http = IdleHttp
  /\ cloudCredentials = NoResponse
  /\ server = HttpStatuses
  /\ auth = IdleAuth
  /\ run = RunIdle

(* What the issuer hands out when it is asked at the current time. *)
freshCredential(caller) == [id |-> caller, expiration |-> now + CredLifetime]

(* ------------------- HttpClient.executeWithRetry ----------------------- *)
(* What one request of the axios instance settles as.  validateStatus     *)
(* accepts every status below 500, so a 4xx answer resolves and only a     *)
(* status of 500 or more, or no answer at all, rejects with an AxiosError. *)

(* the validation getCloudCredentials of run() applies to the response *)
responseAccepted(body) == body.bucket

(* the validation of the S3Uploader constructor *)
constructorAccepts(body) ==
  body.bucket /\ body.accessKeyId /\ body.secretAccessKey

axiosRejects(status) == status >= 500 \/ status = 0
axiosHasResponse(status) == status # 0

(* HttpClient.isNonRetryableError applied to what the catch block caught:  *)
(* axiosError is FALSE for the ApiError thrown on a resolved 4xx answer.   *)
isNonRetryableError(axiosError, status) ==
  /\ axiosError
  /\ axiosHasResponse(status)
  /\ status >= 400 /\ status < 500 /\ status \notin {408, 429}

(* retries: config.retries || 3 *)
httpRetries == jsOr(retryOptions.maxAttempts, 3)

(* The request resolved with a 2xx/3xx answer: executeWithRetry returns    *)
(* response.data, getCloudCredentials checks the bucket and returns the    *)
(* response, and run() constructs the S3Uploader, whose constructor checks *)
(* bucket, access key id and secret access key.                            *)
HttpSucceed ==
  /\ pc = "credentials"
  /\ http.st = "inflight"
  /\ 200 \in server
  /\ \E body \in ResponseBodies :
       /\ http' = [http EXCEPT !.st = "returned",
                               !.history = Append(@, 200)]
       /\ cloudCredentials' =
            IF responseAccepted(body)
            THEN [bucket |-> body.bucket, accessKeyId |-> body.accessKeyId,
                  secretAccessKey |-> body.secretAccessKey,
                  received |-> TRUE]
            ELSE cloudCredentials
       /\ IF responseAccepted(body) /\ constructorAccepts(body)
          THEN /\ credentials' = freshCredential(0)
               /\ s3Client' = credentials'
               /\ pc' = "constructed"
          ELSE /\ pc' = "failed"
               /\ UNCHANGED << credentials, s3Client >>
  /\ UNCHANGED << variant, retryOptions, heapUsed, faults, issuer, logs, now, i,
                  concurrencyLimit, results, errors, task, returned,
                  server, auth, run,
                  tokenStorage, credentialsClient, consolidated >>

(* The request failed: a resolved answer with status >= 400 (ApiError      *)
(* thrown inside the try block) or a rejected request.                     *)
HttpFail ==
  /\ pc = "credentials"
  /\ http.st = "inflight"
  /\ \E status \in server \ {200}, jitter \in Jitters :
       LET caught == [http EXCEPT !.lastError = status,
                                  !.history = Append(@, status)] IN
       IF isNonRetryableError(axiosRejects(status), status)
          \/ http.attempt = httpRetries
       THEN /\ http' = [caught EXCEPT !.st = "raised"]
            /\ pc' = "failed"
       ELSE /\ http' = [caught EXCEPT
                          !.st = "sleeping",
                          !.totalDelay = Min(http.delay + jitter,
                                             HttpMaxRetryDelay),
                          !.sleeps = @ + 1]
            /\ pc' = pc
  /\ UNCHANGED << variant, retryOptions, heapUsed, faults, issuer, logs, now,
                  credentials, s3Client, i, concurrencyLimit, results,
                  errors, task, returned, cloudCredentials, server, auth,
                  run,
                  tokenStorage, credentialsClient, consolidated >>

(* sleep(totalDelay) is over: delay doubles (capped) and the next attempt  *)
(* is sent.                                                                *)
HttpWake ==
  /\ pc = "credentials"
  /\ http.st = "sleeping"
  /\ http' = [http EXCEPT !.st = "inflight",
                          !.delay = Min(http.delay * 2, HttpMaxRetryDelay),
                          !.attempt = @ + 1,
                          !.calls = @ + 1]
  /\ UNCHANGED << variant, retryOptions, heapUsed, faults, issuer, logs, now,
                  credentials, s3Client, pc, i, concurrencyLimit, results,
                  errors, task, returned, cloudCredentials, server, auth,
                  run,
                  tokenStorage, credentialsClient, consolidated >>

(* ------------------ S3Uploader.uploadLogFile / retry ------------------- *)
(* s3Key of operation(): the dist build has the prefix built in *)
s3KeyOf(log) ==
  generateS3Key(run.workflowRunId, log.jobName, log.timestamp,
                IF variant = "src" THEN run.s3LogPath ELSE "build-logs")

(* operation() is entered for the given attempt.  The dist build first     *)
(* awaits initializeS3Client when it has no client yet; otherwise the      *)
(* Upload is created on the current client and upload.done() is awaited.   *)
startOperation(tk, log, attempt, delay) ==
  IF variant = "dist" /\ (s3Client = NoCred \/ credentials = NoCred)
  THEN [tk EXCEPT !.st = "init", !.attempt = attempt, !.delay = delay,
                  !.calls = @ + 1, !.started = TRUE]
  ELSE [tk EXCEPT !.st = "uploading", !.attempt = attempt, !.delay = delay,
                  !.calls = @ + 1, !.transfers = @ + 1, !.started = TRUE,
                  !.keys = @ \cup {s3KeyOf(log)},
                  !.stale = ~areCredentialsValid(s3Client, now)]

(* batch.map(async log => ...): every task of the slice runs up to its     *)
(* first await.                                                            *)
(* the for loop of executeWithRetry is entered: 1 <= maxAttempts *)
loopEnters == ~jsLess(retryOptions.maxAttempts, 1)
              /\ retryOptions.maxAttempts # NaN

(* the loop is not entered: throw lastError, which was never assigned *)
neverTried(tk) == [tk EXCEPT !.st = "failed", !.started = TRUE]

launch(slice) ==
  [t \in DOMAIN task |->
     IF t \in slice
     THEN IF loopEnters
          THEN startOperation(task[t], logs[t], 1, retryOptions.initialDelay)
          ELSE neverTried(task[t])
     ELSE task[t]]

(* The variables uploadAllLogs and the tasks do not touch. *)
Frame ==
  UNCHANGED << variant, retryOptions, heapUsed, faults, issuer, http,
               cloudCredentials, server, auth, run,
                  tokenStorage, credentialsClient, consolidated >>

(* What the catch of the batch promise appends for the tasks of a slice    *)
(* whose uploadLogFile rejected without an attempt.                        *)
RECURSIVE launchErrors(_, _, _)
launchErrors(tasks, from, to) ==
  IF from > to THEN << >>
  ELSE (IF tasks[from].st = "failed"
        THEN << [jobName |-> from, error |-> tasks[from].raised] >>
        ELSE << >>) \o launchErrors(tasks, from + 1, to)

(* uploadAllLogs is entered: empty input returns [], otherwise the         *)
(* concurrency limit is computed and the first slice is launched.          *)
UploadAllLogsBegin ==
  /\ pc = "constructed"
  /\ IF N = 0
     THEN /\ pc' = "returned"
          /\ UNCHANGED << concurrencyLimit, task >>
     ELSE /\ pc' = "batch"
          /\ concurrencyLimit' =
               IF variant = "src" THEN adaptiveConcurrency(logs, heapUsed)
               ELSE DistConcurrencyLimit
          /\ task' = launch(sliceOf(0, concurrencyLimit', N))
  /\ i' = 0
  /\ results' = << >>
  /\ errors' = IF N = 0 THEN << >>
               ELSE launchErrors(task', 1, Min(concurrencyLimit', N))
  /\ returned' = << >>
  /\ UNCHANGED << logs, now, credentials, s3Client >>
  /\ Frame

(* return await operation(): executeWithRetry resolves and its locals are  *)
(* gone.                                                                   *)
afterSuccess(tk) ==
  [tk EXCEPT !.st = "succeeded", !.history = Append(@, OkOutcome),
             !.lastError = NoError, !.delay = 0, !.attempt = 0,
             !.stale = FALSE]

(* The catch block of executeWithRetry for error e of task t, given the    *)
(* task record tk after the failed operation.  Yields the next record;     *)
(* "failed" means executeWithRetry threw lastError.                        *)
afterError_firstError(tk, e) ==
  LET caught == [tk EXCEPT
                   !.lastError = IF @ = NoError THEN e ELSE @,
                   !.history = Append(@, e), !.stale = FALSE] IN
  IF attemptsExhausted(tk.attempt, retryOptions)
  THEN [caught EXCEPT !.st = "failed", !.raised = caught.lastError,
                      !.lastError = NoError, !.delay = 0, !.attempt = 0]
  ELSE IF variant = "dist" /\ isCredentialsError(e)
            /\ (credentials = NoCred \/ ~areCredentialsValid(credentials, now))
       THEN [caught EXCEPT !.st = "refreshing", !.refreshes = @ + 1]
       ELSE [caught EXCEPT !.st = "sleeping", !.sleeps = @ + 1]

afterError_sleepThenGiveUp(tk, e) ==
  LET caught == [tk EXCEPT !.lastError = e, !.history = Append(@, e),
                           !.stale = FALSE] IN
  IF variant = "dist" /\ isCredentialsError(e)
       /\ (credentials = NoCred \/ ~areCredentialsValid(credentials, now))
  THEN [caught EXCEPT !.st = "refreshing", !.refreshes = @ + 1]
  ELSE [caught EXCEPT !.st = "sleeping", !.sleeps = @ + 1]

afterError(tk, e) ==
  LET caught == [tk EXCEPT !.lastError = e, !.history = Append(@, e),
                           !.stale = FALSE] IN
  IF attemptsExhausted(tk.attempt, retryOptions)
  THEN [caught EXCEPT !.st = "failed", !.raised = caught.lastError,
                      !.lastError = NoError, !.delay = 0, !.attempt = 0]
  ELSE IF variant = "dist" /\ isCredentialsError(e)
            /\ (credentials = NoCred \/ ~areCredentialsValid(credentials, now))
       THEN [caught EXCEPT !.st = "refreshing", !.refreshes = @ + 1]
       ELSE [caught EXCEPT !.st = "sleeping", !.sleeps = @ + 1]

(* What the catch of the batch promise appends when the task has failed.   *)
recordError_everyAttempt(errs, t, tk) ==
  Append(errs, [jobName |-> t, error |-> tk.lastError])

recordError(errs, t, tk) ==
  IF tk.st = "failed"
  THEN Append(errs, [jobName |-> t, error |-> tk.raised])
  ELSE errs

(* log.content = '[UPLOADED - Content cleared to save memory]', in the     *)
(* batch promise of the src build after uploadLogFile has resolved         *)
clearContent_none(ls, t) == ls

clearContent(ls, t) == [ls EXCEPT ![t].content = "placeholder"]

(* upload.done() of task t settles. *)
UploadDone(t) ==
  /\ pc = "batch"
  /\ t \in batch
  /\ task[t].st = "uploading"
  /\ \E outcome \in {OkOutcome} \cup faults :
       IF outcome = OkOutcome
       THEN /\ task' = [task EXCEPT ![t] = afterSuccess(task[t])]
            /\ logs' = IF variant = "src" THEN clearContent(logs, t)
                       ELSE logs
            /\ errors' = errors
            /\ s3Client' = s3Client
       ELSE LET tk == afterError(task[t], outcome) IN
            /\ task' = [task EXCEPT ![t] = tk]
            /\ errors' = recordError(errors, t, tk)
            /\ logs' = logs
            \* initializeS3Client with still valid credentials only
            \* rebuilds the client from them
            /\ s3Client' = IF variant = "dist" /\ isCredentialsError(outcome)
                              /\ tk.st = "sleeping"
                           THEN credentials ELSE s3Client
  /\ UNCHANGED << now, credentials, pc, i, concurrencyLimit,
                  results, returned >>
  /\ Frame

(* How the issuer can answer a getCloudCredentials call of the dist build. *)
IssuerOutcomes == IF issuer = "up" THEN {"complete"} ELSE {"complete", "error"}


(* initializeS3Client awaited inside operation() of task t settles. *)
InitDone(t) ==
  /\ pc = "batch"
  /\ t \in batch
  /\ task[t].st = "init"
  /\ \E outcome \in IssuerOutcomes :
       IF outcome = "complete"
       THEN /\ credentials' = freshCredential(t)
            /\ s3Client' = credentials'
            /\ task' = [task EXCEPT ![t].st = "uploading",
                                    ![t].transfers = @ + 1,
                                    ![t].keys = @ \cup {s3KeyOf(logs[t])},
                                    ![t].stale =
                                      ~areCredentialsValid(credentials', now)]
            /\ errors' = errors
       ELSE LET tk == afterError(task[t], InitError) IN
            /\ task' = [task EXCEPT ![t] = tk]
            /\ errors' = recordError(errors, t, tk)
            /\ UNCHANGED << credentials, s3Client >>
  /\ UNCHANGED << logs, now, pc, i, concurrencyLimit, results, returned >>
  /\ Frame

(* initializeS3Client awaited in the catch block of task t settles: on     *)
(* success the retry delay starts, on failure the error leaves             *)
(* executeWithRetry.                                                       *)
RefreshDone(t) ==
  /\ pc = "batch"
  /\ t \in batch
  /\ task[t].st = "refreshing"
  /\ \E outcome \in IssuerOutcomes :
       IF outcome = "complete"
       THEN /\ credentials' = freshCredential(t)
            /\ s3Client' = credentials'
            /\ task' = [task EXCEPT ![t].st = "sleeping",
                                    ![t].sleeps = @ + 1]
            /\ errors' = errors
       ELSE LET tk == [task[t] EXCEPT !.st = "failed",
                                      !.raised = InitError,
                                      !.lastError = NoError, !.delay = 0,
                                      !.attempt = 0] IN
            /\ task' = [task EXCEPT ![t] = tk]
            /\ errors' = recordError(errors, t, tk)
            /\ UNCHANGED << credentials, s3Client >>
  /\ UNCHANGED << logs, now, pc, i, concurrencyLimit, results, returned >>
  /\ Frame

(* sleep(delay) of task t is over: the delay grows and the next attempt    *)
(* starts.                                                                 *)
Wake(t) ==
  /\ pc = "batch"
  /\ t \in batch
  /\ task[t].st = "sleeping"
  /\ LET tk == IF task[t].attempt + 1 <= retryOptions.maxAttempts
                THEN startOperation(task[t], logs[t], task[t].attempt + 1,
                                    nextDelay(task[t].delay, retryOptions))
                ELSE \* the for loop ends: throw lastError
                     [task[t] EXCEPT !.st = "failed",
                                     !.raised = task[t].lastError,
                                     !.lastError = NoError, !.delay = 0,
                                     !.attempt = 0] IN
       /\ task' = [task EXCEPT ![t] = tk]
       /\ errors' = recordError(errors, t, tk)
  /\ UNCHANGED << logs, now, credentials, s3Client, pc, i,
                  concurrencyLimit, results, returned >>
  /\ Frame

(* How the promise of a slice member has settled: the per-task catch turns *)
(* a failure into a fulfilment with null.                                  *)
settledValue_noCatch(tk) ==
  IF tk.st = "succeeded" THEN "result"
  ELSE IF tk.st = "failed" THEN "rejected"
  ELSE "unsettled"

settledValue(tk) ==
  IF tk.st = "succeeded" THEN "result"
  ELSE IF tk.st = "failed" THEN "null"
  ELSE "unsettled"

(* Promise.all over the slice: rejected as soon as one member rejects,     *)
(* fulfilled once every member is fulfilled.                               *)
allState_any(slice) ==
  IF \E t \in slice : settledValue(task[t]) = "rejected" THEN "rejected"
  ELSE IF \E t \in slice : settledValue(task[t]) \in {"result", "null"}
       THEN "fulfilled"
       ELSE "waiting"

allState(slice) ==
  IF \E t \in slice : settledValue(task[t]) = "rejected" THEN "rejected"
  ELSE IF \A t \in slice : settledValue(task[t]) \in {"result", "null"}
       THEN "fulfilled"
       ELSE "waiting"

(* batchResults.filter(result => result !== null), in slice order. *)
RECURSIVE filterResults(_, _, _)
filterResults_reversed(tasks, from, to) ==
  LET ok == {k \in from..to : settledValue(tasks[k]) = "result"} IN
  [j \in 1..Cardinality(ok) |->
     [jobName |-> CHOOSE k \in ok : Cardinality({m \in ok : m > k}) = j - 1,
      value |-> "result"]]

filterResults(tasks, from, to) ==
  IF from > to THEN << >>
  ELSE (IF settledValue(tasks[from]) = "result"
        THEN << [jobName |-> from, value |-> "result"] >>
        ELSE << >>) \o filterResults(tasks, from + 1, to)

(* A task whose promise has settled leaves only its outcome behind. *)
retire(tk) == [IdleTask EXCEPT !.st = tk.st, !.started = tk.started]

(* Promise.all of the slice settles: results are collected and either the  *)
(* 100 ms pause before the next slice starts or uploadAllLogs returns; a   *)
(* rejection reaches the outer catch, which rethrows.                      *)
FinishBatch ==
  /\ pc = "batch"
  /\ allState(batch) # "waiting"
  /\ IF allState(batch) = "rejected"
     THEN /\ pc' = "raised"
          /\ UNCHANGED << results, returned, task >>
     ELSE /\ results' = results \o
                        filterResults(task, i + 1,
                                      Min(i + concurrencyLimit, N))
          /\ task' = [t \in DOMAIN task |->
                        IF t \in batch THEN retire(task[t]) ELSE task[t]]
          /\ IF i + concurrencyLimit < N
             THEN pc' = "pause" /\ returned' = returned
             ELSE pc' = "returned" /\ returned' = results'
  /\ UNCHANGED << logs, now, credentials, s3Client, i,
                  concurrencyLimit, errors >>
  /\ Frame

(* The pause between slices is over: i += concurrencyLimit and the next    *)
(* slice is launched.                                                      *)
NextBatch ==
  /\ pc = "pause"
  /\ i' = i + concurrencyLimit
  /\ task' = launch(sliceOf(i', concurrencyLimit, N))
  /\ errors' = errors \o
                 launchErrors(task', i' + 1, Min(i' + concurrencyLimit, N))
  /\ pc' = "batch"
  /\ UNCHANGED << logs, now, credentials, s3Client,
                  concurrencyLimit, results, returned >>
  /\ Frame

(* Time passes while uploadAllLogs waits. *)
Tick ==
  /\ pc \in {"batch", "pause"}
  /\ now < MaxTicks * TickMs
  /\ now' = now + TickMs
  /\ UNCHANGED << variant, retryOptions, heapUsed, faults, issuer, logs,
                  credentials, s3Client, pc, i, concurrencyLimit, results,
                  errors, task, returned, http, cloudCredentials, server,
                  auth, run,
                  tokenStorage, credentialsClient, consolidated >>

Next ==
  \/ HttpSucceed
  \/ HttpFail
  \/ HttpWake
  \/ UploadAllLogsBegin
  \/ \E t \in DOMAIN task : UploadDone(t)
  \/ \E t \in DOMAIN task : InitDone(t)
  \/ \E t \in DOMAIN task : RefreshDone(t)
  \/ \E t \in DOMAIN task : Wake(t)
  \/ FinishBatch
  \/ NextBatch
  \/ Tick

Spec == Init /\ [][Next]_vars

(* ------------- HttpClientWithRetry.executeWithRetry (login) ------------ *)
(* axios with its default validateStatus: every answer outside 2xx rejects *)
(* with an AxiosError that carries the response; no answer rejects with an *)
(* AxiosError without response, whose status reads as 0.                   *)
(* the statuses on which the catch block leaves the loop at once *)
authBreaks(status) == status >= 400 /\ status < 500 /\ status # 429

(* MemoryTokenStorage *)
Hour == 60 * 60 * 1000

setToken(ts, t) ==
  [ts EXCEPT !.token = ts.logins + 1, !.expiry = t + Hour,
             !.logins = @ + 1, !.storedAt = t, !.loggedOut = FALSE]

clearToken(ts) == [ts EXCEPT !.token = NullToken, !.expiry = NullExpiry]

(* getToken: the token it returns and the storage it leaves *)
getToken_noExpiry(ts, t) ==
  [value |-> ts.token, storage |-> ts]

getToken(ts, t) ==
  IF ts.token = NullToken
  THEN [value |-> NullToken, storage |-> ts]
  ELSE IF ts.expiry # NullExpiry /\ t > ts.expiry
       THEN [value |-> NullToken, storage |-> clearToken(ts)]
       ELSE [value |-> ts.token, storage |-> ts]

isTokenValid(ts, t) == getToken(ts, t).value # NullToken

(* AuthClient.isAuthenticated and getAuthHeaders *)
isAuthenticated(ts, t) == isTokenValid(ts, t)

getAuthHeaders(ts, t) ==
  IF getToken(ts, t).value = NullToken THEN "threw" ELSE "headers"

(* the login request resolved with a token and a username:                *)
(* executeWithRetry returns response.data and login stores the token      *)
AuthSucceed ==
  /\ pc = "login"
  /\ auth.st = "inflight"
  /\ 200 \in server
  /\ auth' = [IdleAuth EXCEPT !.st = "returned"]
  /\ tokenStorage' = [setToken(tokenStorage, now) EXCEPT !.userInfo = TRUE]
  /\ pc' = "constructed"
  /\ UNCHANGED << variant, retryOptions, heapUsed, faults, issuer, logs, now,
                  credentials, s3Client, i, concurrencyLimit, results,
                  errors, task, returned, http, cloudCredentials, server,
                  run, credentialsClient, consolidated >>

(* the login request rejected *)
AuthFail ==
  /\ pc = "login"
  /\ auth.st = "inflight"
  /\ \E status \in server \ {200} :
       LET caught == [auth EXCEPT !.lastError = status] IN
       IF attemptsExhausted(auth.attempt, retryOptions) \/ authBreaks(status)
       THEN /\ auth' = [caught EXCEPT !.st = "raised"]
            /\ pc' = "failed"
       ELSE /\ auth' = [caught EXCEPT !.st = "sleeping", !.sleeps = @ + 1]
            /\ pc' = pc
  /\ UNCHANGED << variant, retryOptions, heapUsed, faults, issuer, logs, now,
                  credentials, s3Client, i, concurrencyLimit, results,
                  errors, task, returned, http, cloudCredentials, server,
                  run,
                  tokenStorage, credentialsClient, consolidated >>

(* sleep(delay) is over: the delay grows and the request is sent again *)
AuthWake ==
  /\ pc = "login"
  /\ auth.st = "sleeping"
  /\ auth' = [auth EXCEPT !.st = "inflight",
                          !.delay = nextDelay(auth.delay, retryOptions),
                          !.attempt = @ + 1,
                          !.calls = @ + 1]
  /\ UNCHANGED << variant, retryOptions, heapUsed, faults, issuer, logs, now,
                  credentials, s3Client, pc, i, concurrencyLimit, results,
                  errors, task, returned, http, cloudCredentials, server,
                  run,
                  tokenStorage, credentialsClient, consolidated >>

(* ------------- the retry executors under wider retry options ----------- *)
(* One log is uploaded after the login (dist build) or the credential      *)
(* request (src build), under retry options with more attempts and with    *)
(* the extreme retry delays the input validation admits; the API server    *)
(* and the storage backend each fail with one kind of error.               *)
BackoffAttempts == 7

(* retry-delay inputs in seconds: validateRetryDelay admits 1..60 *)
WideRetryDelays == {1, 60}

BackoffPolicies ==
  { [maxAttempts |-> a, initialDelay |-> d * 1000, maxDelay |-> 30000,
     backoffFactor |-> 2] : a \in 1..BackoffAttempts, d \in WideRetryDelays }
  \cup
  { [DefaultRetryOptions EXCEPT !.maxAttempts = a] : a \in 1..BackoffAttempts }

RetryServerProfiles == { {200, s} : s \in {400, 408, 429, 500, 0} }

RetryInit ==
  /\ ClientsIdle
  /\ variant \in Variants
  /\ retryOptions \in BackoffPolicies
  /\ heapUsed = 64 * MiB
  /\ logs = << [jobName |-> << 49 >>, timestamp |-> 0, size |-> 10 * KiB,
                content |-> "log"] >>
  /\ faults \in { {e} : e \in UploadErrors }
  /\ issuer \in {"up", "flaky"}
  /\ variant = "src" => issuer = "flaky"
  /\ server \in RetryServerProfiles
  /\ now = 0
  /\ credentials = NoCred
  /\ s3Client = NoCred
  /\ i = 0
  /\ concurrencyLimit = 0
  /\ results = << >>
  /\ errors = << >>
  /\ task = [t \in 1..Len(logs) |-> IdleTask]
  /\ returned = << >>
  /\ cloudCredentials = NoResponse
  /\ run = RunIdle
  /\ IF variant = "src"
     THEN /\ pc = "credentials"
          /\ http = [IdleHttp EXCEPT !.st = "inflight", !.attempt = 1,
                       !.calls = 1, !.delay = retryOptions.initialDelay]
          /\ auth = IdleAuth
     ELSE /\ pc = "login"
          /\ auth = [IdleAuth EXCEPT !.st = "inflight", !.attempt = 1,
                       !.calls = 1, !.delay = retryOptions.initialDelay]
          /\ http = IdleHttp

RetryNext ==
  \/ AuthSucceed
  \/ AuthFail
  \/ AuthWake
  \/ HttpSucceed
  \/ HttpFail
  \/ HttpWake
  \/ UploadAllLogsBegin
  \/ \E t \in DOMAIN task : UploadDone(t)
  \/ \E t \in DOMAIN task : InitDone(t)
  \/ \E t \in DOMAIN task : RefreshDone(t)
  \/ \E t \in DOMAIN task : Wake(t)
  \/ FinishBatch
  \/ Tick

SpecRetry == RetryInit /\ [][RetryNext]_vars

(* ---------------- uploadAllLogs on its own, without faults ------------- *)
(* An S3Uploader constructed with complete credentials and the             *)
(* constructor's default retry options uploads lists of logs of mixed      *)
(* sizes, around the thresholds of the concurrency computation, under heap *)
(* readings around the memory threshold; every transfer succeeds.          *)
PlanLogs == 3

PlanSizes ==
  {0, 10 * KiB, MiB, MiB + 1, 2 * MiB, 10 * MiB, 10 * MiB + 1, 11 * MiB}

(* heapUsed readings: little, the largest that leaves more than 1 GiB      *)
(* available, the smallest that does not, a lot, more than the limit       *)
PlanHeapReadings ==
  {64 * MiB, 128849018, 128849019, 512 * MiB, GiB + 512 * MiB}

PlanLogLists ==
  UNION { [1..n -> [jobName : {<< >>}, timestamp : {0}, size : PlanSizes,
                    content : {"log"}]] :
            n \in 0..PlanLogs }

(* jobName of a log is the digit of its position *)
numbered(ls) ==
  [k \in 1..Len(ls) |-> [ls[k] EXCEPT !.jobName = << 48 + k >>]]

(* five logs of 500 KB *)
ScenarioALogs ==
  [k \in 1..5 |-> [jobName |-> << 48 + k >>, timestamp |-> 0,
                   size |-> 500 * 1000, content |-> "log"]]

PlanInit ==
  /\ ClientsIdle
  /\ variant = "src"
  /\ retryOptions = DefaultRetryOptions
  /\ heapUsed \in PlanHeapReadings
  /\ \E ls \in PlanLogLists \cup {ScenarioALogs} : logs = numbered(ls)
  /\ faults = {}
  /\ issuer = "flaky"
  /\ now = 0
  /\ credentials = [id |-> 0, expiration |-> CredLifetime]
  /\ s3Client = credentials
  /\ pc = "constructed"
  /\ i = 0
  /\ concurrencyLimit = 0
  /\ results = << >>
  /\ errors = << >>
  /\ task = [t \in 1..Len(logs) |-> IdleTask]
  /\ returned = << >>
  /\ http = IdleHttp
  /\ cloudCredentials = [bucket |-> TRUE, accessKeyId |-> TRUE,
                         secretAccessKey |-> TRUE, received |-> TRUE]
  /\ server = HttpStatuses
  /\ auth = IdleAuth
  /\ run = RunIdle

PlanNext ==
  \/ UploadAllLogsBegin
  \/ \E t \in DOMAIN task : UploadDone(t)
  \/ FinishBatch
  \/ NextBatch

SpecPlan == PlanInit /\ [][PlanNext]_vars

(* ------------------- the object key of an upload ----------------------- *)
(* One log with an arbitrary short job name, or with a longer name of the  *)
(* kind GitHub job names have, is uploaded by either build; the storage    *)
(* backend fails with network errors, so that the upload is retried.       *)
MaxNameLen == 2

(* code units: a Z 7 - _ space / and the two halves of a surrogate pair *)
KeyUnits == {97, 90, 55, 45, 95, 32, 47, 55357, 56832}

(* "build #1/linux" *)
BuildLinux ==
  << 98, 117, 105, 108, 100, 32, 35, 49, 47, 108, 105, 110, 117, 120 >>

(* "test (ubuntu-latest, 18.x)" *)
MatrixJob ==
  << 116, 101, 115, 116, 32, 40, 117, 98, 117, 110, 116, 117, 45, 108, 97,
     116, 101, 115, 116, 44, 32, 49, 56, 46, 120, 41 >>

JobNames ==
  UNION { [1..n -> KeyUnits] : n \in 0..MaxNameLen }
  \cup {BuildLinux, MatrixJob}

(* download times: the first and the last millisecond of a day, the first *)
(* of the next                                                             *)
KeyTimestamps == {0, DayMs - 1, DayMs}

KeyInit ==
  /\ ClientsIdle
  /\ variant \in Variants
  /\ retryOptions = [DefaultRetryOptions EXCEPT !.maxAttempts = 2]
  /\ heapUsed = 64 * MiB
  /\ \E name \in JobNames, ts \in KeyTimestamps :
       logs = << [jobName |-> name, timestamp |-> ts, size |-> 10 * KiB,
                  content |-> "log"] >>
  /\ faults = {[status |-> 0, credentialKeyword |-> FALSE, origin |-> "s3"]}
  /\ issuer = "up"
  /\ server = {200}
  /\ now = 0
  /\ credentials = IF variant = "src" THEN freshCredential(0) ELSE NoCred
  /\ s3Client = credentials
  /\ pc = "constructed"
  /\ i = 0
  /\ concurrencyLimit = 0
  /\ results = << >>
  /\ errors = << >>
  /\ task = [t \in 1..Len(logs) |-> IdleTask]
  /\ returned = << >>
  /\ http = IdleHttp
  /\ auth = IdleAuth
  /\ cloudCredentials = NoResponse
  /\ \E id \in {1, 77}, path \in {"logs", "ci/logs"} :
       run = [RunIdle EXCEPT !.workflowRunId = id, !.s3LogPath = path]

KeyNext ==
  \/ UploadAllLogsBegin
  \/ \E t \in DOMAIN task : UploadDone(t)
  \/ \E t \in DOMAIN task : InitDone(t)
  \/ \E t \in DOMAIN task : Wake(t)
  \/ FinishBatch

SpecKey == KeyInit /\ [][KeyNext]_vars

(* ------------------------------- run() --------------------------------- *)
(* run() from its first line: the inputs are read and validated, the       *)
(* server is registered, the API key is validated by a credential request, *)
(* the workflow run is looked up, the logs are downloaded, credentials are *)
(* requested again, the logs are uploaded and the API is notified.         *)
MaxRawLen == 2
MaxRunLogs == 2

(* code units of the texts given as retry inputs: 1 0 6 - x blank *)
RawUnits == {49, 48, 54, 45, 120, 32}

(* "invalid", "15", "2.5", "100" *)
RawSamples ==
  { << 105, 110, 118, 97, 108, 105, 100 >>, << 49, 53 >>,
    << 50, 46, 53 >>, << 49, 48, 48 >> }

RawTexts == UNION { [1..n -> RawUnits] : n \in 0..MaxRawLen } \cup RawSamples

ValidInputs ==
  [ apiKey |-> [set |-> TRUE, length |-> 32, placeholder |-> FALSE],
    apiEndpoint |-> [url |-> TRUE, protocol |-> "https:",
                     localHost |-> FALSE],
    githubToken |-> [set |-> TRUE, length |-> 40, knownFormat |-> TRUE],
    retryAttempts |-> << 50 >>,
    retryDelay |-> << >>,
    s3LogPath |-> [text |-> "ci/logs", dotdot |-> FALSE,
                   leadingSlash |-> FALSE, invalidChar |-> FALSE,
                   length |-> 7] ]

ApiKeys ==
  { [set |-> FALSE, length |-> 0, placeholder |-> FALSE],
    [set |-> TRUE, length |-> 0, placeholder |-> FALSE],
    [set |-> TRUE, length |-> 5, placeholder |-> FALSE],
    [set |-> TRUE, length |-> 10, placeholder |-> FALSE],
    [set |-> TRUE, length |-> 501, placeholder |-> FALSE],
    [set |-> TRUE, length |-> 16, placeholder |-> TRUE] }

ApiEndpoints ==
  { [url |-> FALSE, protocol |-> "", localHost |-> FALSE],
    [url |-> TRUE, protocol |-> "http:", localHost |-> FALSE],
    [url |-> TRUE, protocol |-> "https:", localHost |-> TRUE] }

GithubTokens ==
  { [set |-> FALSE, length |-> 0, knownFormat |-> FALSE],
    [set |-> TRUE, length |-> 8, knownFormat |-> FALSE],
    [set |-> TRUE, length |-> 24, knownFormat |-> FALSE] }

(* '', '../../../malicious', '/logs', 'a<b', a text of 201 characters *)
S3LogPaths ==
  { [text |-> "", dotdot |-> FALSE, leadingSlash |-> FALSE,
     invalidChar |-> FALSE, length |-> 0],
    [text |-> "../../../malicious", dotdot |-> TRUE, leadingSlash |-> FALSE,
     invalidChar |-> FALSE, length |-> 18],
    [text |-> "/logs", dotdot |-> FALSE, leadingSlash |-> TRUE,
     invalidChar |-> FALSE, length |-> 5],
    [text |-> "a<b", dotdot |-> FALSE, leadingSlash |-> FALSE,
     invalidChar |-> TRUE, length |-> 3],
    [text |-> "long", dotdot |-> FALSE, leadingSlash |-> FALSE,
     invalidChar |-> FALSE, length |-> 201] }

(* the valid inputs, and the inputs that differ from them in one input *)
RunInputs ==
  {ValidInputs}
  \cup { [ValidInputs EXCEPT !.apiKey = k] : k \in ApiKeys }
  \cup { [ValidInputs EXCEPT !.apiEndpoint = e] : e \in ApiEndpoints }
  \cup { [ValidInputs EXCEPT !.githubToken = g] : g \in GithubTokens }
  \cup { [ValidInputs EXCEPT !.s3LogPath = q] : q \in S3LogPaths }
  \cup { [ValidInputs EXCEPT !.retryAttempts = r] : r \in RawTexts }
  \cup { [ValidInputs EXCEPT !.retryDelay = r] : r \in RawTexts }

Conclusions ==
  {"failure", "cancelled", "success", "neutral", "skipped", "none"}

RunLogLists ==
  { [k \in 1..n |-> [jobName |-> << 48 + k >>, timestamp |-> 0,
                      size |-> sz, content |-> "log"]] :
      n \in 0..MaxRunLogs, sz \in {10 * KiB, 11 * MiB} }

RunInit ==
  /\ ClientsIdle
  /\ variant = "src"
  /\ retryOptions = DefaultRetryOptions
  /\ heapUsed = 64 * MiB
  /\ logs = << >>
  /\ faults \in {{}, {[status |-> 0, credentialKeyword |-> FALSE,
                        origin |-> "s3"]}}
  /\ issuer = "up"
  /\ server \in {{200}, {200, 500}}
  /\ now = 0
  /\ credentials = NoCred
  /\ s3Client = NoCred
  /\ pc = "inputs"
  /\ i = 0
  /\ concurrencyLimit = 0
  /\ results = << >>
  /\ errors = << >>
  /\ task = << >>
  /\ returned = << >>
  /\ http = IdleHttp
  /\ auth = IdleAuth
  /\ cloudCredentials = NoResponse
  /\ \E version \in {"httpClient", "axios"}, inputs \in RunInputs,
        act \in BOOLEAN, conclusion \in Conclusions :
       /\ run = [RunIdle EXCEPT !.version = version, !.inputs = inputs,
                                !.act = act, !.conclusion = conclusion]
       \* the environment varies under the valid inputs only
       /\ (inputs # ValidInputs) =>
            (faults = {} /\ server = {200} /\ conclusion = "failure")

(* The variables run() itself never touches. *)
RunFrame ==
  UNCHANGED << variant, heapUsed, faults, issuer, now, server, auth, i,
               concurrencyLimit, results, errors, returned,
               tokenStorage, credentialsClient, consolidated >>

(* the catch block of run(): setFailed, the outputs from the locals, and   *)
(* the error thrown again                                                  *)
runCatch_initial(r, message) ==
  [r EXCEPT !.failed = message,
            !.outputs = [uploadStatus |-> "failed",
                         notificationStatus |-> "failed",
                         filesUploaded |-> 0],
            !.settled = "rejected"]

runCatch(r, message) ==
  [r EXCEPT !.failed = message,
            !.outputs = [uploadStatus |-> r.uploadStatus,
                         notificationStatus |-> r.notificationStatus,
                         filesUploaded |-> r.filesUploaded],
            !.settled = "rejected"]

(* setActionOutputs followed by return *)
runReturn(r, uploadStatus, filesUploaded, notificationStatus) ==
  [r EXCEPT !.outputs = [uploadStatus |-> uploadStatus,
                         notificationStatus |-> notificationStatus,
                         filesUploaded |-> filesUploaded],
            !.settled = "resolved"]

(* const inputs = getActionInputs(), and the retry options built from them *)
RunGetInputs ==
  /\ pc = "inputs"
  /\ LET message == inputsError(run.version, run.inputs, run.act) IN
     IF message # "ok"
     THEN /\ run' = runCatch(run, message)
          /\ pc' = "done"
          /\ retryOptions' = retryOptions
     ELSE /\ run' = [run EXCEPT !.s3LogPath =
                        IF run.inputs.s3LogPath.text = "" THEN "logs"
                        ELSE run.inputs.s3LogPath.text]
          /\ pc' = "register"
          /\ retryOptions' = retryOptionsOf(run.inputs)
  /\ UNCHANGED << logs, credentials, s3Client, task, http,
                  cloudCredentials >>
  /\ RunFrame

(* await registerServer(...) *)
RunRegister ==
  /\ pc = "register"
  /\ \E status \in server :
       IF status = 200
       THEN /\ run' = [run EXCEPT !.calls.register = @ + 1]
            /\ pc' = "validateKey"
       ELSE /\ run' = runCatch([run EXCEPT !.calls.register = @ + 1],
                               "Server registration failed")
            /\ pc' = "done"
  /\ UNCHANGED << retryOptions, logs, credentials, s3Client, task, http,
                  cloudCredentials >>
  /\ RunFrame

(* what JSON.stringify(response.data) of a credentials response shows *)
secretsIn(body) ==
  IF body.secretAccessKey THEN {"secretAccessKey", "sessionToken"} ELSE {}

(* await getCloudCredentials(...) before the workflow run is looked up;    *)
(* the response is dropped.  getCloudCredentials of index.ts logs the      *)
(* response data and checks nothing.                                       *)
RunValidateKey ==
  /\ pc = "validateKey"
  /\ \E status \in server, body \in ResponseBodies :
       LET called == [run EXCEPT !.calls.credentials = @ + 1] IN
       IF status # 200
       THEN /\ run' = runCatch(called, "Failed to get cloud credentials")
            /\ pc' = "done"
       ELSE IF run.version = "axios"
       THEN /\ run' = [called EXCEPT !.logged = @ \cup secretsIn(body)]
            /\ pc' = "workflow"
       ELSE IF responseAccepted(body)
       THEN /\ run' = called
            /\ pc' = "workflow"
       ELSE /\ run' = runCatch(called, "Failed to get cloud credentials")
            /\ pc' = "done"
  /\ UNCHANGED << retryOptions, logs, credentials, s3Client, task, http,
                  cloudCredentials >>
  /\ RunFrame

(* the test that makes run() return before the logs are downloaded *)
skipsUpload_never(conclusion, act) == FALSE

skipsUpload(conclusion, act) ==
  /\ ~act
  /\ conclusion # "none"
  /\ conclusion \in {"success", "neutral", "skipped"}

(* await githubClient.getWorkflowRun(...) and the conclusion check *)
RunGetWorkflow ==
  /\ pc = "workflow"
  /\ \E found \in BOOLEAN :
       LET called == [run EXCEPT !.calls.workflow = @ + 1] IN
       IF ~found
       THEN /\ run' = runCatch(called, "Failed to get workflow run")
            /\ pc' = "done"
       ELSE IF skipsUpload(run.conclusion, run.act)
       THEN /\ run' = runReturn(called, "skipped", 0, "skipped")
            /\ pc' = "done"
       ELSE /\ run' = called
            /\ pc' = "logs"
  /\ UNCHANGED << retryOptions, logs, credentials, s3Client, task, http,
                  cloudCredentials >>
  /\ RunFrame

(* await githubClient.getAllWorkflowLogs(...); with logs, the credentials  *)
(* are requested: through HttpClient in s3-uploader.ts, by a single        *)
(* axios.get in index.ts.                                                   *)
(* the test that makes run() return when no logs were found *)
noLogs_never(ls) == FALSE

noLogs(ls) == Len(ls) = 0

RunGetLogs ==
  /\ pc = "logs"
  /\ \E ls \in RunLogLists :
       LET called == [run EXCEPT !.calls.logs = @ + 1] IN
       /\ logs' = ls
       /\ task' = [t \in 1..Len(ls) |-> IdleTask]
       /\ IF noLogs(ls)
          THEN /\ run' = runReturn(called, "failed", 0, "not-attempted")
               /\ pc' = "done"
               /\ http' = http
          ELSE /\ run' = [called EXCEPT !.calls.credentials = @ + 1]
               /\ pc' = "credentials"
               /\ http' = IF run.version = "httpClient"
                          THEN [IdleHttp EXCEPT
                                  !.st = "inflight", !.attempt = 1,
                                  !.calls = 1,
                                  !.delay = jsOr(retryOptions.initialDelay,
                                                 1000)]
                          ELSE http
  /\ UNCHANGED << retryOptions, credentials, s3Client, cloudCredentials >>
  /\ RunFrame

(* getCloudCredentials of index.ts and new S3Uploader(cloudCredentials)    *)
RunAxiosCredentials ==
  /\ pc = "credentials"
  /\ run.version = "axios"
  /\ \E status \in server, body \in ResponseBodies :
       IF status # 200
       THEN /\ pc' = "failed"
            /\ UNCHANGED << run, credentials, s3Client, cloudCredentials >>
       ELSE /\ run' = [run EXCEPT !.logged = @ \cup secretsIn(body)]
            /\ cloudCredentials' =
                 [bucket |-> body.bucket, accessKeyId |-> body.accessKeyId,
                  secretAccessKey |-> body.secretAccessKey,
                  received |-> TRUE]
            /\ IF constructorAccepts(body)
               THEN /\ credentials' = freshCredential(0)
                    /\ s3Client' = credentials'
                    /\ pc' = "constructed"
               ELSE /\ pc' = "failed"
                    /\ UNCHANGED << credentials, s3Client >>
  /\ UNCHANGED << retryOptions, logs, task, http >>
  /\ RunFrame

(* uploadResults.length === 0 *)
resultsEmpty_never(uploadResults) == FALSE

resultsEmpty(uploadResults) == Len(uploadResults) = 0

(* uploadAllLogs has returned, or it or the credential request has raised *)
RunAfterUpload ==
  /\ pc \in {"returned", "raised", "failed"}
  /\ run.settled = "pending"
  /\ IF pc = "failed"
     THEN /\ run' = runCatch(run, "Failed to get cloud credentials")
          /\ pc' = "done"
     ELSE IF pc = "raised"
     THEN /\ run' = runCatch(run, "Batch upload failed")
          /\ pc' = "done"
     ELSE IF resultsEmpty(returned)
     THEN /\ run' = runCatch(run, "Failed to upload any logs")
          /\ pc' = "done"
     ELSE /\ run' = [run EXCEPT !.uploadStatus = "success",
                                !.filesUploaded = Len(returned)]
          /\ pc' = "notify"
  /\ UNCHANGED << retryOptions, logs, credentials, s3Client, task, http,
                  cloudCredentials >>
  /\ RunFrame

(* uploadResults.map(result => ({filename: result.key, fileType: 'LOG',    *)
(* bucketName: result.bucket}))                                            *)
uploadedFiles_perLog(uploadResults) ==
  [k \in 1..N |->
     [job |-> k, filename |-> s3KeyOf(logs[k]), bucketName |-> "bucket"]]

uploadedFiles(uploadResults) ==
  [k \in 1..Len(uploadResults) |->
     [job |-> uploadResults[k].jobName,
      filename |-> s3KeyOf(logs[uploadResults[k].jobName]),
      bucketName |-> "bucket"]]

(* await notifyUploadComplete(...); notifyUploadComplete of index.ts logs  *)
(* the request headers, X-API-Key included, when the request fails.        *)
RunNotify ==
  /\ pc = "notify"
  /\ \E status \in server :
       LET called == [run EXCEPT !.calls.notify = @ + 1,
                                 !.notified = uploadedFiles(returned)] IN
       IF status = 200
       THEN run' = runReturn([called EXCEPT !.notificationStatus = "success"],
                             called.uploadStatus, called.filesUploaded,
                             "success")
       ELSE run' = runCatch(
                     [called EXCEPT !.logged =
                        IF run.version = "axios" THEN @ \cup {"apiKey"}
                        ELSE @],
                     "Upload notification failed")
  /\ pc' = "done"
  /\ UNCHANGED << retryOptions, logs, credentials, s3Client, task, http,
                  cloudCredentials >>
  /\ RunFrame

RunNext ==
  \/ RunGetInputs
  \/ RunRegister
  \/ RunValidateKey
  \/ RunGetWorkflow
  \/ RunGetLogs
  \/ RunAxiosCredentials
  \/ HttpSucceed
  \/ HttpFail
  \/ HttpWake
  \/ UploadAllLogsBegin
  \/ \E t \in DOMAIN task : UploadDone(t)
  \/ \E t \in DOMAIN task : Wake(t)
  \/ FinishBatch
  \/ NextBatch
  \/ RunAfterUpload
  \/ RunNotify

SpecRun == RunInit /\ [][RunNext]_vars

(* ------------- the token session and the credentials client ------------ *)
(* An AuthClient and a CredentialsClient on their own: logins, logouts,    *)
(* questions about the token and calls of refreshCredentialsIfNeeded with  *)
(* the credential the last call returned, while the clock advances.        *)
MaxLogins == 2
MaxClockSteps == 4

(* the clock advances by a millisecond, by the credential buffer less a   *)
(* millisecond, or by the rest of the token's hour                        *)
ClockSteps == {1, bufferTime - 1, Hour - bufferTime}

(* the clock readings MaxClockSteps steps lead to *)
ClockReadings ==
  { x[1] + x[2] * (bufferTime - 1) + x[3] * (Hour - bufferTime) :
      x \in { y \in (0..MaxClockSteps) \X (0..MaxClockSteps)
                      \X (0..MaxClockSteps) :
                y[1] + y[2] + y[3] <= MaxClockSteps } }

SessionInit ==
  /\ ClientsIdle
  /\ variant = "dist"
  /\ retryOptions = [DefaultRetryOptions EXCEPT !.maxAttempts = 2]
  /\ heapUsed = 64 * MiB
  /\ logs = << >>
  /\ faults = {}
  /\ issuer = "flaky"
  /\ server \in { {200}, {200, 500}, {401} }
  /\ now = 0
  /\ credentials = NoCred
  /\ s3Client = NoCred
  /\ pc = "constructed"
  /\ i = 0
  /\ concurrencyLimit = 0
  /\ results = << >>
  /\ errors = << >>
  /\ task = << >>
  /\ returned = << >>
  /\ http = IdleHttp
  /\ auth = IdleAuth
  /\ cloudCredentials = NoResponse
  /\ run = [RunIdle EXCEPT !.act = FALSE]

(* The variables the two clients never touch. *)
SessionFrame ==
  UNCHANGED << variant, retryOptions, heapUsed, logs, faults, issuer, server,
               s3Client, i, concurrencyLimit, results, errors, task,
               returned, http, cloudCredentials, run, consolidated >>

(* AuthClient.login sends its request *)
LoginBegin ==
  /\ pc \in {"constructed", "failed"}
  /\ tokenStorage.logins < MaxLogins
  /\ pc' = "login"
  /\ auth' = [IdleAuth EXCEPT !.st = "inflight", !.attempt = 1, !.calls = 1,
                              !.delay = retryOptions.initialDelay]
  /\ SessionFrame
  /\ UNCHANGED << now, credentials, tokenStorage, credentialsClient >>

(* the login request resolved without a token or without a username:      *)
(* login throws and stores nothing                                        *)
LoginInvalidResponse ==
  /\ pc = "login"
  /\ auth.st = "inflight"
  /\ 200 \in server
  /\ auth' = [IdleAuth EXCEPT !.st = "returned"]
  /\ pc' = "failed"
  /\ SessionFrame
  /\ UNCHANGED << now, credentials, tokenStorage, credentialsClient >>

(* AuthClient.logout *)
Logout ==
  /\ tokenStorage' = [clearToken(tokenStorage) EXCEPT !.userInfo = FALSE,
                                                      !.loggedOut = TRUE]
  /\ SessionFrame
  /\ UNCHANGED << now, credentials, pc, auth, credentialsClient >>

(* AuthClient.getToken, isAuthenticated and getAuthHeaders: each reads    *)
(* the token through MemoryTokenStorage.getToken, which clears a token    *)
(* whose expiry has passed.                                               *)
AskToken(caller) ==
  LET got == getToken(tokenStorage, now) IN
  /\ tokenStorage' =
       [got.storage EXCEPT !.answer =
          [caller |-> caller,
           result |->
             CASE caller = "getToken" ->
                    IF got.value = NullToken THEN "null" ELSE "token"
               [] caller = "isAuthenticated" ->
                    IF isAuthenticated(tokenStorage, now) THEN "true"
                    ELSE "false"
               [] OTHER -> getAuthHeaders(tokenStorage, now)]]
  /\ SessionFrame
  /\ UNCHANGED << now, credentials, pc, auth, credentialsClient >>

(* what the issuer answers a credential request with: a credential with   *)
(* an expiration, one without, one whose expiration is no date, or an     *)
(* error                                                                   *)
IssuerAnswers == {"complete", "noExpiration", "noDate", "error"}

issuedCredential(answer, t) ==
  [id |-> 0,
   expiration |-> CASE answer = "complete" -> t + CredLifetime
                    [] answer = "noExpiration" -> NoExpiration
                    [] OTHER -> NaN]

(* refreshCredentialsIfNeeded(credentials): the caller keeps what it      *)
(* returns.  getCloudCredentials throws before any request when the       *)
(* session holds no valid token.                                          *)
mustRefresh(c, t) == c = NoCred \/ ~areCredentialsValid(c, t)

RefreshCredentialsIfNeeded ==
  LET called == [IdleClient EXCEPT !.called = TRUE,
                                   !.turn = 1 - credentialsClient.turn] IN
  IF ~mustRefresh(credentials, now)
  THEN /\ credentialsClient' = called
       /\ SessionFrame
       /\ UNCHANGED << now, credentials, pc, auth, tokenStorage >>
  ELSE LET got == getToken(tokenStorage, now) IN
       /\ tokenStorage' = got.storage
       /\ IF got.value = NullToken
          THEN /\ credentialsClient' =
                    [called EXCEPT !.issuerCalled = TRUE, !.threw = TRUE]
               /\ UNCHANGED credentials
          ELSE \E answer \in IssuerAnswers :
                 /\ credentialsClient' =
                      [called EXCEPT !.issuerCalled = TRUE,
                                     !.requested = TRUE,
                                     !.threw = (answer = "error")]
                 /\ credentials' = IF answer = "error" THEN credentials
                                   ELSE issuedCredential(answer, now)
       /\ SessionFrame
       /\ UNCHANGED << now, pc, auth >>

ClockStep ==
  /\ \E d \in ClockSteps :
       /\ now + d \in ClockReadings
       /\ now' = now + d
  /\ SessionFrame
  /\ UNCHANGED << credentials, pc, auth, tokenStorage, credentialsClient >>

SessionNext ==
  \/ LoginBegin
  \/ AuthSucceed
  \/ AuthFail
  \/ AuthWake
  \/ LoginInvalidResponse
  \/ Logout
  \/ \E caller \in {"getToken", "isAuthenticated", "getAuthHeaders"} :
       AskToken(caller)
  \/ ClockStep

SpecSession == SessionInit /\ [][SessionNext]_vars

(* The CredentialsClient of a session that has logged in at 0 or has not  *)
(* logged in at all.                                                      *)
ClientInit ==
  /\ credentialsClient = IdleClient
  /\ consolidated = NoConsolidated
  /\ tokenStorage \in
       {NoToken, [setToken(NoToken, 0) EXCEPT !.userInfo = TRUE]}
  /\ variant = "dist"
  /\ retryOptions = [DefaultRetryOptions EXCEPT !.maxAttempts = 2]
  /\ heapUsed = 64 * MiB
  /\ logs = << >>
  /\ faults = {}
  /\ issuer = "flaky"
  /\ server = {200, 500}
  /\ now = 0
  /\ credentials = NoCred
  /\ s3Client = NoCred
  /\ pc = IF tokenStorage = NoToken THEN "failed" ELSE "constructed"
  /\ i = 0
  /\ concurrencyLimit = 0
  /\ results = << >>
  /\ errors = << >>
  /\ task = << >>
  /\ returned = << >>
  /\ http = IdleHttp
  /\ auth = IdleAuth
  /\ cloudCredentials = NoResponse
  /\ run = [RunIdle EXCEPT !.act = FALSE]

ClientNext ==
  \/ RefreshCredentialsIfNeeded
  \/ Logout
  \/ ClockStep

SpecClient == ClientInit /\ [][ClientNext]_vars

(* --------------- uploadAllLogs over an unreliable store ---------------- *)
(* An S3Uploader of the src build, constructed with complete credentials, *)
(* uploads lists of two logs or more to a store whose transfers may fail  *)
(* with a network error.                                                  *)
OrderInit ==
  /\ ClientsIdle
  /\ variant = "src"
  /\ retryOptions = [DefaultRetryOptions EXCEPT !.maxAttempts = 2]
  /\ heapUsed \in HeapReadings
  /\ logs \in {l \in LogLists : Len(l) >= 2}
  /\ faults = {[status |-> 0, credentialKeyword |-> FALSE, origin |-> "s3"]}
  /\ issuer = "up"
  /\ server = {200}
  /\ now = 0
  /\ credentials = freshCredential(0)
  /\ s3Client = credentials
  /\ pc = "constructed"
  /\ i = 0
  /\ concurrencyLimit = 0
  /\ results = << >>
  /\ errors = << >>
  /\ task = [t \in 1..Len(logs) |-> IdleTask]
  /\ returned = << >>
  /\ http = IdleHttp
  /\ auth = IdleAuth
  /\ cloudCredentials = NoResponse
  /\ run = RunIdle

OrderNext ==
  \/ UploadAllLogsBegin
  \/ \E t \in DOMAIN task : UploadDone(t)
  \/ \E t \in DOMAIN task : Wake(t)
  \/ FinishBatch
  \/ NextBatch

(* The event loop runs a continuation that is ready and every transfer    *)
(* attempt settles: as long as a step of uploadAllLogs is possible, one   *)
(* is taken.                                                              *)
SpecOrder == OrderInit /\ [][OrderNext]_vars /\ WF_vars(OrderNext)

(* ------------- run() and uploadAllLogs called on its own --------------- *)
(* run() as above, and beside it an S3Uploader of the src build that is   *)
(* handed a list of logs, the empty list included, while no run() is      *)
(* under way.                                                             *)
EmptyInit ==
  \/ RunInit
  \/ /\ ClientsIdle
     /\ variant = "src"
     /\ retryOptions = DefaultRetryOptions
     /\ heapUsed = 64 * MiB
     /\ logs \in RunLogLists
     /\ faults \in {{}, {[status |-> 0, credentialKeyword |-> FALSE,
                           origin |-> "s3"]}}
     /\ issuer = "up"
     /\ server = {200}
     /\ now = 0
     /\ credentials = freshCredential(0)
     /\ s3Client = credentials
     /\ pc = "constructed"
     /\ i = 0
     /\ concurrencyLimit = 0
     /\ results = << >>
     /\ errors = << >>
     /\ task = [t \in 1..Len(logs) |-> IdleTask]
     /\ returned = << >>
     /\ http = IdleHttp
     /\ auth = IdleAuth
     /\ cloudCredentials = NoResponse
     /\ run = [RunIdle EXCEPT !.settled = "resolved"]

SpecEmpty == EmptyInit /\ [][RunNext]_vars

(* --------------- the logs getAllWorkflowLogs hands over ---------------- *)
(* getJobLogs: the log of a job carries the job's name and the clock      *)
(* reading, in whole milliseconds, at which its download ended.           *)
getJobLogs(jobName, downloadedAt, size) ==
  [jobName |-> jobName, timestamp |-> downloadedAt, size |-> size,
   content |-> "log"]

(* names of the jobs of a workflow run: "a", "b", " " and "_" *)
DownloadNames == { << 97 >>, << 98 >>, << 32 >>, << 95 >> }

(* the downloads of a run start together and end within a millisecond or  *)
(* two of each other                                                      *)
DownloadTimes == {0, 1}

(* jobs of the workflow run *)
DownloadedJobs == 2

(* getAllWorkflowLogs: one log per job, in the order of the jobs *)
DownloadedLists ==
  { [k \in 1..DownloadedJobs |-> getJobLogs(names[k], times[k], sz)] :
      names \in [1..DownloadedJobs -> DownloadNames],
      times \in [1..DownloadedJobs -> DownloadTimes],
      sz \in ContentSizes }

DownloadInit ==
  /\ ClientsIdle
  /\ variant = "src"
  /\ retryOptions = [DefaultRetryOptions EXCEPT !.maxAttempts = 2]
  /\ heapUsed = 64 * MiB
  /\ logs \in DownloadedLists
  /\ faults = {[status |-> 0, credentialKeyword |-> FALSE, origin |-> "s3"]}
  /\ issuer = "up"
  /\ server = {200}
  /\ now = 0
  /\ credentials = freshCredential(0)
  /\ s3Client = credentials
  /\ pc = "constructed"
  /\ i = 0
  /\ concurrencyLimit = 0
  /\ results = << >>
  /\ errors = << >>
  /\ task = [t \in 1..Len(logs) |-> IdleTask]
  /\ returned = << >>
  /\ http = IdleHttp
  /\ auth = IdleAuth
  /\ cloudCredentials = NoResponse
  /\ run = RunIdle

SpecDownload == DownloadInit /\ [][OrderNext]_vars

(* ------------------ S3Uploader.uploadConsolidatedLogs ------------------ *)
(* "consolidated" *)
consolidatedName ==
  << 99, 111, 110, 115, 111, 108, 105, 100, 97, 116, 101, 100 >>

(* the lines one log contributes: the separator of 80 "=", the JOB line,  *)
(* the TIMESTAMP line, the separator again, the content and an empty line *)
sectionOf(log) ==
  [separator |-> 80, jobName |-> log.jobName, timestamp |-> log.timestamp,
   content |-> log.content]

(* logs.map(...).join('\n') *)
consolidatedContent_first(ls) ==
  [k \in 1..Min(Len(ls), 1) |-> sectionOf(ls[k])]

consolidatedContent(ls) == [k \in 1..Len(ls) |-> sectionOf(ls[k])]

consolidatedLog(ls, t) ==
  [jobName |-> consolidatedName, timestamp |-> t, size |-> totalLogSize(ls),
   content |-> consolidatedContent(ls)]

(* The variables uploadConsolidatedLogs does not touch. *)
ConsolidatedFrame ==
  UNCHANGED << variant, retryOptions, heapUsed, logs, faults, issuer, now,
               i, concurrencyLimit, results, errors, task, returned, http,
               cloudCredentials, server, auth, run, tokenStorage,
               credentialsClient >>

(* how uploadConsolidatedLogs stands, given executeWithRetry of its       *)
(* uploadLogFile: a terminal failure is thrown on as 'Consolidated log    *)
(* creation failed'                                                       *)
consolidatedState(tk) ==
  IF tk.st = "succeeded" THEN "returned"
  ELSE IF tk.st = "failed" THEN "raised"
  ELSE "running"

consolidatedStep(tk) ==
  /\ consolidated' = [consolidated EXCEPT !.tk = tk,
                                          !.st = consolidatedState(tk)]
  /\ pc' = IF consolidatedState(tk) = "running" THEN "consolidating"
           ELSE "consolidated"

(* uploadConsolidatedLogs is called, before uploadAllLogs or after it has *)
(* returned: the consolidated log is built and handed to uploadLogFile.   *)
ConsolidatedBegin ==
  /\ pc \in {"constructed", "returned"}
  /\ consolidated.st = "idle"
  /\ LET log == consolidatedLog(logs, now)
         tk == IF loopEnters
               THEN startOperation(IdleTask, log, 1,
                                   retryOptions.initialDelay)
               ELSE neverTried(IdleTask) IN
       /\ consolidated' = [st |-> consolidatedState(tk), log |-> log,
                           tk |-> tk, calls |-> 1,
                           afterBatch |-> pc = "returned"]
       /\ pc' = IF consolidatedState(tk) = "running" THEN "consolidating"
                ELSE "consolidated"
  /\ UNCHANGED << credentials, s3Client >>
  /\ ConsolidatedFrame

(* upload.done() of the consolidated log settles *)
ConsolidatedDone ==
  /\ pc = "consolidating"
  /\ consolidated.tk.st = "uploading"
  /\ \E outcome \in {OkOutcome} \cup faults :
       IF outcome = OkOutcome
       THEN /\ consolidatedStep(afterSuccess(consolidated.tk))
            /\ s3Client' = s3Client
       ELSE LET tk == afterError(consolidated.tk, outcome) IN
            /\ consolidatedStep(tk)
            /\ s3Client' = IF variant = "dist" /\ isCredentialsError(outcome)
                              /\ tk.st = "sleeping"
                           THEN credentials ELSE s3Client
  /\ UNCHANGED credentials
  /\ ConsolidatedFrame

(* initializeS3Client awaited inside operation() settles (dist build) *)
ConsolidatedInitDone ==
  /\ pc = "consolidating"
  /\ consolidated.tk.st = "init"
  /\ \E outcome \in IssuerOutcomes :
       IF outcome = "complete"
       THEN /\ credentials' = freshCredential(0)
            /\ s3Client' = credentials'
            /\ consolidatedStep(
                 [consolidated.tk EXCEPT
                    !.st = "uploading", !.transfers = @ + 1,
                    !.keys = @ \cup {s3KeyOf(consolidated.log)},
                    !.stale = ~areCredentialsValid(credentials', now)])
       ELSE /\ consolidatedStep(afterError(consolidated.tk, InitError))
            /\ UNCHANGED << credentials, s3Client >>
  /\ ConsolidatedFrame

(* sleep(delay) is over: the next attempt starts *)
ConsolidatedWake ==
  /\ pc = "consolidating"
  /\ consolidated.tk.st = "sleeping"
  /\ LET tk == consolidated.tk IN
     consolidatedStep(
       IF tk.attempt + 1 <= retryOptions.maxAttempts
       THEN startOperation(tk, consolidated.log, tk.attempt + 1,
                           nextDelay(tk.delay, retryOptions))
       ELSE [tk EXCEPT !.st = "failed", !.raised = tk.lastError,
                       !.lastError = NoError, !.delay = 0, !.attempt = 0])
  /\ UNCHANGED << credentials, s3Client >>
  /\ ConsolidatedFrame

(* An S3Uploader of either build is handed a list of logs; the caller     *)
(* calls uploadConsolidatedLogs on the list, at once or after             *)
(* uploadAllLogs has returned.  The store fails with network errors and   *)
(* the issuer of the dist build may fail.                                 *)
ConsolidatedInit ==
  /\ ClientsIdle
  /\ variant \in Variants
  /\ retryOptions = [DefaultRetryOptions EXCEPT !.maxAttempts = 2]
  /\ heapUsed = 64 * MiB
  /\ logs \in LogLists
  /\ faults \in {{}, {[status |-> 0, credentialKeyword |-> FALSE,
                        origin |-> "s3"]}}
  /\ issuer \in {"up", "flaky"}
  /\ variant = "src" => issuer = "up"
  /\ server = {200}
  /\ now = 0
  /\ credentials = IF variant = "src" THEN freshCredential(0) ELSE NoCred
  /\ s3Client = credentials
  /\ pc = "constructed"
  /\ i = 0
  /\ concurrencyLimit = 0
  /\ results = << >>
  /\ errors = << >>
  /\ task = [t \in 1..Len(logs) |-> IdleTask]
  /\ returned = << >>
  /\ http = IdleHttp
  /\ auth = IdleAuth
  /\ cloudCredentials = NoResponse
  /\ run = RunIdle

ConsolidatedNext ==
  \/ UploadAllLogsBegin
  \/ \E t \in DOMAIN task : UploadDone(t)
  \/ \E t \in DOMAIN task : InitDone(t)
  \/ \E t \in DOMAIN task : Wake(t)
  \/ FinishBatch
  \/ NextBatch
  \/ ConsolidatedBegin
  \/ ConsolidatedDone
  \/ ConsolidatedInitDone
  \/ ConsolidatedWake

SpecConsolidated == ConsolidatedInit /\ [][ConsolidatedNext]_vars

(* ------------------ uploadAllLogs under a fair scheduler --------------- *)
(* An S3Uploader of either build is handed a list of logs under the retry *)
(* options run() builds, or under options whose maxAttempts is 0 or not a *)
(* number.  The event loop runs a continuation that is ready, and every   *)
(* transfer attempt and every issuer call settles: as long as a step of   *)
(* uploadAllLogs is possible, one is taken.                               *)
FairLogs == 2

FairLogLists ==
  { [k \in 1..n |-> [jobName |-> << 48 + k >>, timestamp |-> 0,
                      size |-> sz, content |-> "log"]] :
      n \in 0..FairLogs, sz \in ContentSizes }

FairPolicies ==
  RetryPolicies \cup
  { [DefaultRetryOptions EXCEPT !.maxAttempts = a] : a \in {0, NaN} }

FairInit ==
  /\ ClientsIdle
  /\ variant \in Variants
  /\ retryOptions \in FairPolicies
  /\ heapUsed = 64 * MiB
  /\ logs \in FairLogLists
  /\ faults \in FaultProfiles
  /\ issuer \in {"up", "flaky"}
  /\ variant = "src" => issuer = "up"
  /\ (Len(logs) > 1) => (Cardinality(faults) <= 1)
  /\ server = {200}
  /\ now = 0
  /\ credentials = IF variant = "src" THEN freshCredential(0) ELSE NoCred
  /\ s3Client = credentials
  /\ pc = "constructed"
  /\ i = 0
  /\ concurrencyLimit = 0
  /\ results = << >>
  /\ errors = << >>
  /\ task = [t \in 1..Len(logs) |-> IdleTask]
  /\ returned = << >>
  /\ http = IdleHttp
  /\ auth = IdleAuth
  /\ cloudCredentials = NoResponse
  /\ run = RunIdle

FairNext ==
  \/ UploadAllLogsBegin
  \/ \E t \in DOMAIN task : UploadDone(t)
  \/ \E t \in DOMAIN task : InitDone(t)
  \/ \E t \in DOMAIN task : RefreshDone(t)
  \/ \E t \in DOMAIN task : Wake(t)
  \/ FinishBatch
  \/ NextBatch
  \/ Tick

SpecFair == FairInit /\ [][FairNext]_vars /\ WF_vars(FairNext)

TypeOK ==
  /\ variant \in Variants
  /\ pc \in {"inputs", "register", "validateKey", "workflow", "logs",
             "login", "credentials", "constructed", "batch", "pause",
             "returned", "raised", "failed", "notify", "done",
             "consolidating", "consolidated"}
  /\ run.settled \in {"pending", "resolved", "rejected"}
  /\ \A t \in DOMAIN task :
       task[t].st \in {"pending", "init", "uploading", "refreshing",
                       "sleeping", "succeeded", "failed"}

(* ======================= properties of the batch ======================= *)
(* ErrorKind of an error, by the priority rules of the classifier:         *)
(* credential keyword, then 408/429, then other 4xx, then no response.     *)
classify(e) ==
  IF e.credentialKeyword THEN "CredentialExpired"
  ELSE IF e.status \in {408, 429} THEN "Throttled"
  ELSE IF e.status >= 400 /\ e.status < 500 THEN "ClientRejected"
  ELSE IF e.status = 0 THEN "NetworkFailure"
  ELSE "Unknown"

Jobs == 1..N
finished == pc = "returned"

(* occurrences of job t in a list of {jobName, ...} entries *)
occurrences(list, t) ==
  Cardinality({k \in 1..Len(list) : list[k].jobName = t})

(* tasks whose uploadLogFile has started and has not settled *)
inFlight == {t \in Jobs : task[t].started /\ ~Settled(task[t])}

(* 0-based number of the slice log t belongs to *)
sliceIndex(t) == (t - 1) \div concurrencyLimit

(* the tasks of the running slice whose executeWithRetry is under way or   *)
(* has just settled (their counters are still there)                       *)
tracked == {t \in Jobs : task[t].calls > 0}

(* C1: when uploadAllLogs finishes on a non-empty list, results plus       *)
(* recorded failures count the input logs, and every log has exactly one   *)
(* entry, in results or in errors.                                         *)
C1_ExhaustiveOutcome ==
  (finished /\ N > 0) =>
     /\ Len(results) + Len(errors) = N
     /\ \A t \in Jobs : occurrences(results, t) + occurrences(errors, t) = 1

C1_Witness ==
  /\ finished /\ N = MaxLogs
  /\ Len(results) > 0 /\ Len(errors) > 0
  /\ i > 0

(* C2: a task that fails terminally never makes uploadAllLogs raise; its   *)
(* error is in the errors list, and when uploadAllLogs returns every log   *)
(* has been handed to uploadLogFile and has settled.                       *)
C2_FailureDoesNotAbort ==
  /\ pc # "raised"
  /\ \A t \in Jobs : task[t].st = "failed" => occurrences(errors, t) = 1
  /\ finished => \A t \in Jobs : task[t].started /\ Settled(task[t])

(* three logs, one failing for good with a 400, two succeeding *)
C2_Witness ==
  /\ finished /\ N = 3
  /\ Len(returned) = 2 /\ Len(errors) = 1
  /\ errors[1].error.status = 400
  /\ retryOptions.maxAttempts > 1

(* C3: no task of a later slice has started while a task of an earlier     *)
(* slice is not settled.                                                   *)
C3_SliceOrder ==
  concurrencyLimit > 0 =>
    \A t \in Jobs, u \in Jobs :
      (sliceIndex(u) < sliceIndex(t) /\ task[t].started)
         => Settled(task[u])

(* a task of the second slice is retrying after the first slice had a      *)
(* failure                                                                 *)
C3_Witness ==
  /\ pc = "batch" /\ i > 0
  /\ \E t \in batch : task[t].st = "sleeping"
  /\ Len(errors) > 0

(* C4: the tasks started and not settled never outnumber the concurrency   *)
(* limit of the call.                                                      *)
C4_BoundedInFlight == Cardinality(inFlight) <= concurrencyLimit

C4_Witness ==
  /\ pc = "batch"
  /\ concurrencyLimit = 2 /\ N > concurrencyLimit
  /\ Cardinality(inFlight) = concurrencyLimit

(* C5: the value uploadAllLogs returns carries, for every task that failed *)
(* terminally, one failure entry naming the task.                          *)
C5_ReturnCarriesFailures ==
  finished =>
    \A k \in 1..Len(errors) :
      \E j \in 1..Len(returned) :
        /\ returned[j].jobName = errors[k].jobName
        /\ returned[j].value = "failure"

(* C6: executeWithRetry of the src uploader and of HttpClient calls the    *)
(* operation at least once and at most maxAttempts times, makes no call    *)
(* after a success, and when it raises, raises the error of its last call. *)
RECURSIVE noneBefore(_, _, _)
noneBefore(h, good, k) ==
  IF k <= 0 THEN TRUE ELSE h[k] # good /\ noneBefore(h, good, k - 1)

C6_RetryBounds ==
  /\ variant = "src" =>
       \A t \in tracked :
         LET h == task[t].history IN
         /\ task[t].calls >= 1
         /\ task[t].calls <= retryOptions.maxAttempts
         /\ noneBefore(h, OkOutcome, Len(h) - 1)
         /\ task[t].st = "succeeded" =>
              (Len(h) = task[t].calls /\ h[Len(h)] = OkOutcome)
         /\ task[t].st = "failed" =>
              /\ Len(h) = task[t].calls
              /\ h[Len(h)] # OkOutcome
              /\ task[t].raised = h[Len(h)]
  /\ http.st # "idle" =>
       LET h == http.history IN
       /\ http.calls >= 1
       /\ http.calls <= httpRetries
       /\ noneBefore(h, 200, Len(h) - 1)
       /\ http.st = "returned" => (Len(h) = http.calls /\ h[Len(h)] = 200)
       /\ http.st = "raised" =>
            /\ Len(h) = http.calls
            /\ h[Len(h)] # 200
            /\ http.lastError = h[Len(h)]

(* an upload that failed with one error, then raised another one *)
C6_Witness ==
  /\ variant = "src"
  /\ \E t \in tracked :
       /\ task[t].st = "failed"
       /\ task[t].calls = retryOptions.maxAttempts
       /\ task[t].calls > 1
       /\ task[t].history[1] # task[t].raised

(* C7: an upload whose every attempt fails with a ClientRejected error     *)
(* makes exactly one attempt and waits no retry delay.                     *)
C7_ClientRejectedOnce ==
  \A t \in tracked :
    (/\ task[t].st = "failed"
     /\ \A k \in 1..Len(task[t].history) :
          classify(task[t].history[k]) = "ClientRejected")
    => (task[t].calls = 1 /\ task[t].sleeps = 0)

(* C8: an upload whose first attempt fails with a CredentialExpired error  *)
(* and whose second attempt succeeds has called the issuer exactly once    *)
(* in between.                                                             *)
C8_OneRefresh ==
  \A t \in tracked :
    (/\ task[t].st = "succeeded"
     /\ Len(task[t].history) = 2
     /\ classify(task[t].history[1]) = "CredentialExpired")
    => task[t].refreshes = 1

(* C9: at most one issuer call is in flight at any time, and the client    *)
(* one upload of a slice obtained is not replaced by the answer to the     *)
(* call of another upload that was waiting for a credential too.           *)
issuerCallsInFlight ==
  Cardinality({t \in Jobs : task[t].st \in {"init", "refreshing"}})

C9_CoalescedRefresh ==
  [][ /\ issuerCallsInFlight' <= 1
      /\ (\E t \in Jobs : task[t].st = "init" /\ task'[t].st = "uploading")
           => (s3Client = NoCred \/ s3Client' = s3Client) ]_vars

(* C10: every transfer attempt starts on a credential that is still more   *)
(* than five minutes from its expiration.                                  *)
C10_NoExpiredCredential ==
  \A t \in Jobs : task[t].st = "uploading" => ~task[t].stale

(* C11: when no credential was obtained (every issuer call failed or       *)
(* answered without a bucket), uploadAllLogs over a non-empty list does    *)
(* not return an outcome: the run ends with an error instead.              *)
C11_NoCredentialRaises ==
  (N > 0 /\ s3Client = NoCred /\ credentials = NoCred) => pc # "returned"

(* C12: whatever getCloudCredentials has returned to run() carries a       *)
(* non-empty bucket, access key id and secret access key.                  *)
C12_OnlyCompleteCredential ==
  cloudCredentials.received =>
    /\ cloudCredentials.bucket
    /\ cloudCredentials.accessKeyId
    /\ cloudCredentials.secretAccessKey

(* C13: the concurrency limit uploadAllLogs of the src build computes      *)
(* follows the four tiers in order: mean content size above 10 MiB gives   *)
(* 1, else mean above 1 MiB gives 2, else estimated available memory above *)
(* 1 GiB gives 5, else 3; it is at least 1; uniform lists of 11 MiB, 2 MiB *)
(* and 10 KiB logs get 1, 2 and (without more than 1 GiB available) 3.     *)
meanAbove(c) == totalLogSize(logs) > c * N
availableMemory == 1202590843 - heapUsed
uniform(sz) == \A k \in 1..N : logs[k].size = sz

C13_ConcurrencyTiers ==
  (variant = "src" /\ pc \in {"batch", "pause"}) =>
    /\ concurrencyLimit \in {1, 2, 3, 5}
    /\ concurrencyLimit >= 1
    /\ meanAbove(10 * MiB) => concurrencyLimit = 1
    /\ (~meanAbove(10 * MiB) /\ meanAbove(MiB)) => concurrencyLimit = 2
    /\ (~meanAbove(MiB) /\ availableMemory > GiB) => concurrencyLimit = 5
    /\ (~meanAbove(MiB) /\ availableMemory <= GiB) => concurrencyLimit = 3
    /\ uniform(11 * MiB) => concurrencyLimit = 1
    /\ uniform(2 * MiB) => concurrencyLimit = 2
    /\ (uniform(10 * KiB) /\ availableMemory <= GiB) => concurrencyLimit = 3

(* a list whose mean is between the thresholds although one log is above   *)
(* 10 MiB, with plenty of memory available                                 *)
C13_Witness ==
  /\ pc = "batch" /\ concurrencyLimit = 2
  /\ \E k \in 1..N : logs[k].size > 10 * MiB
  /\ availableMemory > GiB

(* C14, as stated: five logs of 500 KB that all upload at the first        *)
(* attempt give 5 results and no failure, under a concurrency limit of 3.  *)
scenarioA == variant = "src" /\ N = 5 /\ uniform(500 * 1000) /\ faults = {}

C14_ScenarioA_Stated ==
  (scenarioA /\ finished) =>
    /\ Len(returned) = 5 /\ Len(errors) = 0
    /\ concurrencyLimit = 3

(* C14, amended: five logs of 500 KB that all upload at the first attempt  *)
(* give 5 results and no failure; the concurrency limit is 3 when the      *)
(* estimated available memory is at most 1 GiB and 5 when it is more.      *)
C14_ScenarioA ==
  (scenarioA /\ finished) =>
    /\ Len(returned) = 5 /\ Len(errors) = 0
    /\ \A t \in Jobs : occurrences(returned, t) = 1
    /\ concurrencyLimit = IF availableMemory > GiB THEN 5 ELSE 3

(* the run finished in two slices *)
C14_Witness ==
  /\ scenarioA /\ finished
  /\ concurrencyLimit = 3 /\ i = 3 /\ Len(returned) = 5

(* C15: under {initialDelay 1000, maxDelay 10000, backoffFactor 2} the     *)
(* delays an upload or a login waits before its retries are 1000, 2000,    *)
(* 4000, 8000, 10000, 10000, ...; in general, for retry options whose      *)
(* initial delay does not exceed the maximum, the n-th retry delay is      *)
(* min(initialDelay * backoffFactor^(n-1), maxDelay), and the delay of     *)
(* HttpClient before jitter is min(retryDelay * 2^(n-1), maxRetryDelay).   *)
RECURSIVE pow(_, _)
pow(b, e) == IF e = 0 THEN 1 ELSE b * pow(b, e - 1)

backoff(n, opts) ==
  Min(opts.initialDelay * pow(opts.backoffFactor, n - 1), opts.maxDelay)

statedDelays == << 1000, 2000, 4000, 8000, 10000, 10000, 10000, 10000 >>

statedPolicy ==
  /\ retryOptions.initialDelay = 1000
  /\ retryOptions.maxDelay = 10000
  /\ retryOptions.backoffFactor = 2

C15_BackoffGrowth ==
  /\ \A t \in tracked :
       task[t].st = "sleeping" =>
         /\ statedPolicy => task[t].delay = statedDelays[task[t].sleeps]
         /\ retryOptions.initialDelay <= retryOptions.maxDelay =>
              task[t].delay = backoff(task[t].sleeps, retryOptions)
  /\ auth.st = "sleeping" =>
       /\ statedPolicy => auth.delay = statedDelays[auth.sleeps]
       /\ retryOptions.initialDelay <= retryOptions.maxDelay =>
            auth.delay = backoff(auth.sleeps, retryOptions)
  /\ (http.st = "sleeping"
        /\ retryOptions.initialDelay <= HttpMaxRetryDelay) =>
       http.delay = Min(retryOptions.initialDelay * pow(2, http.sleeps - 1),
                        HttpMaxRetryDelay)

(* the sixth retry delay of an upload under the stated policy *)
C15_Witness ==
  /\ statedPolicy
  /\ \E t \in tracked :
       task[t].st = "sleeping" /\ task[t].sleeps = 6 /\ task[t].delay = 10000

(* C16: every delay waited between two attempts is at most the maximum     *)
(* delay of the retry options (maxRetryDelay for HttpClient, whose delay   *)
(* includes the jitter).                                                   *)
C16_DelayCapped ==
  /\ \A t \in tracked :
       task[t].st = "sleeping" => task[t].delay <= retryOptions.maxDelay
  /\ auth.st = "sleeping" => auth.delay <= retryOptions.maxDelay
  /\ http.st = "sleeping" => http.totalDelay <= HttpMaxRetryDelay

(* C17: a retry delay is waited only between two attempts: an executor     *)
(* that has made k attempts has waited k-1 delays while an attempt is      *)
(* under way and once it has returned or raised, and a delay that is being *)
(* waited is followed by another attempt.                                  *)
NetworkError == [status |-> 0, credentialKeyword |-> FALSE, origin |-> "s3"]

C17_DelaysBetweenAttempts ==
  /\ \A t \in tracked :
       /\ task[t].st \in {"init", "uploading", "refreshing", "succeeded",
                           "failed"} => task[t].sleeps = task[t].calls - 1
       /\ task[t].st = "sleeping" =>
            /\ task[t].sleeps = task[t].calls
            /\ task[t].attempt < retryOptions.maxAttempts
  /\ auth.st \in {"inflight", "raised"} => auth.sleeps = auth.calls - 1
  /\ auth.st = "sleeping" =>
       (auth.sleeps = auth.calls /\ auth.attempt < retryOptions.maxAttempts)
  /\ http.st \in {"inflight", "returned", "raised"} =>
       http.sleeps = http.calls - 1
  /\ http.st = "sleeping" =>
       (http.sleeps = http.calls /\ http.attempt < httpRetries)

(* an upload fails twice with a network error, then succeeds: two delays,  *)
(* no failure recorded                                                     *)
C17_Witness ==
  /\ N = 1 /\ task[1].st = "succeeded"
  /\ task[1].history = << NetworkError, NetworkError, OkOutcome >>
  /\ task[1].sleeps = 2
  /\ errors = << >>

(* C18, as stated: in the src build the content of every settled task,     *)
(* succeeded or failed, has been replaced by the placeholder.              *)
C18_ContentReleased_Stated ==
  variant = "src" =>
    \A t \in Jobs : Settled(task[t]) => logs[t].content = "placeholder"

(* C18, amended: in the src build the content of a task is the placeholder *)
(* as soon as the task has succeeded, hence before the next slice starts;  *)
(* the content of every other task, failed ones included, is untouched.    *)
C18_ContentReleased ==
  variant = "src" =>
    \A t \in Jobs :
      /\ task[t].st = "succeeded" => logs[t].content = "placeholder"
      /\ task[t].st # "succeeded" => logs[t].content = "log"

(* second slice under way after a first slice with a success and a failure *)
C18_Witness ==
  /\ variant = "src" /\ pc = "batch" /\ i > 0
  /\ \E t \in Jobs, u \in Jobs :
       /\ task[t].st = "succeeded" /\ logs[t].content = "placeholder"
       /\ task[u].st = "failed" /\ logs[u].content = "log"

(* C19: a request that fails with status 408 or 429 is retried until the   *)
(* attempts are used up: an executor that raises such an error has made    *)
(* maxAttempts attempts.                                                   *)
Throttled == {408, 429}

C19_ThrottledRetried ==
  /\ (auth.st = "raised" /\ auth.lastError \in Throttled) =>
       auth.calls = retryOptions.maxAttempts
  /\ (http.st = "raised" /\ http.lastError \in Throttled) =>
       http.calls = httpRetries

(* C20: an upload error carrying a credential keyword is handled as        *)
(* CredentialExpired whatever its status: the upload is not given up on a  *)
(* 403 while attempts remain, and the delay before the retry is waited     *)
(* only after the issuer has been asked for a new credential.              *)
lastOutcome(tk) == tk.history[Len(tk.history)]

C20_KeywordBeforeStatus ==
  \A t \in tracked :
    /\ (/\ task[t].st = "failed"
        /\ task[t].raised.origin = "s3"
        /\ \A k \in 1..Len(task[t].history) :
             classify(task[t].history[k]) = "CredentialExpired")
       => task[t].calls = retryOptions.maxAttempts
    /\ (/\ task[t].st = "sleeping"
        /\ classify(lastOutcome(task[t])) = "CredentialExpired"
        /\ lastOutcome(task[t]).status = 403)
       => task[t].refreshes >= 1

(* C21: an HttpClient request answered with a 4xx status other than 408    *)
(* and 429 is not retried: the executor never waits a delay after such an  *)
(* answer and raises after exactly one request.                            *)
clientError(status) ==
  status >= 400 /\ status < 500 /\ status \notin Throttled

C21_ClientErrorNotRetried ==
  /\ (http.st = "sleeping" /\ Len(http.history) > 0) =>
       ~clientError(http.history[Len(http.history)])
  /\ (http.st = "raised" /\ clientError(http.lastError)) =>
       (http.calls = 1 /\ http.sleeps = 0)

(* C28: every task of uploadAllLogs moves Pending -> Uploading ->          *)
(* {Succeeded | Retrying}, Retrying -> Uploading: it never becomes pending *)
(* again, a succeeded or failed task stays what it is and starts no        *)
(* further attempt, and in the src build a task fails only in an attempt   *)
(* numbered maxAttempts.                                                   *)
phase(st) ==
  CASE st = "pending" -> "Pending"
    [] st \in {"init", "uploading"} -> "Uploading"
    [] st \in {"sleeping", "refreshing"} -> "Retrying"
    [] st = "succeeded" -> "Succeeded"
    [] st = "failed" -> "Failed"

taskEdges ==
  { << "Pending", "Uploading" >>, << "Uploading", "Uploading" >>,
    << "Uploading", "Succeeded" >>, << "Uploading", "Retrying" >>,
    << "Uploading", "Failed" >>, << "Retrying", "Retrying" >>,
    << "Retrying", "Uploading" >>, << "Retrying", "Failed" >> }

taskStep(t) ==
  /\ task[t].st # task'[t].st =>
       << phase(task[t].st), phase(task'[t].st) >> \in taskEdges
  /\ Settled(task[t]) =>
       /\ task'[t].st = task[t].st
       /\ task'[t].calls <= task[t].calls
       /\ task'[t].transfers <= task[t].transfers
  /\ (task[t].st = "uploading" /\ task'[t].st = "init") => FALSE
  /\ (variant = "src" /\ task[t].st # "failed" /\ task'[t].st = "failed") =>
       /\ task[t].st = "uploading"
       /\ task[t].attempt = retryOptions.maxAttempts

C28_TaskStateMachine ==
  [][\A t \in DOMAIN task : taskStep(t)]_vars

(* the second slice retries an upload after the first slice ended with a   *)
(* success and with a failure in its last attempt                          *)
C28_Witness ==
  /\ variant = "src" /\ retryOptions.maxAttempts = 2
  /\ pc = "batch"
  /\ \E t, u, v \in Jobs :
       /\ sliceIndex(t) = 0 /\ sliceIndex(u) = 0 /\ sliceIndex(v) = 1
       /\ task[t].st = "failed" /\ task[u].st = "succeeded"
       /\ task[v].st = "sleeping" /\ task[v].sleeps = 1

(* C29: uploadAllLogs cuts the list into consecutive slices of             *)
(* concurrencyLimit logs, the last one possibly shorter: the running slice *)
(* starts at a multiple of the limit, the logs handed to uploadLogFile so  *)
(* far are exactly those up to the end of the running slice, all of them   *)
(* once uploadAllLogs has returned, and no log is handed to uploadLogFile  *)
(* a second time.                                                          *)
sliceEnd == Min(i + concurrencyLimit, N)

partitioned ==
  /\ (pc \in {"batch", "pause"}) =>
       /\ concurrencyLimit >= 1
       /\ i % concurrencyLimit = 0 /\ i < N
       /\ batch = (i + 1)..sliceEnd
       /\ \A t \in Jobs : task[t].started <=> t <= sliceEnd
  /\ (finished /\ N > 0) => \A t \in Jobs : task[t].started

(* uploadLogFile is entered for log t *)
handed(t) == task'[t].attempt = 1 /\ task[t].attempt # 1

C29_SlicesPartition ==
  /\ []partitioned
  /\ [][\A t \in DOMAIN task : handed(t) => ~task[t].started]_vars

(* three logs under a limit of 2: the third log is alone in the second     *)
(* slice                                                                   *)
C29_Witness ==
  /\ pc = "batch" /\ N = 3 /\ concurrencyLimit = 2 /\ i = 2
  /\ batch = {3}
  /\ task[1].st = "succeeded" /\ task[2].st = "succeeded"
  /\ task[3].st = "uploading"

(* C30: the Key of every Upload created for a log is made of the path      *)
(* prefix, the day of the log's timestamp, the run id, the sanitized job   *)
(* name and the timestamp, and of nothing else, so that all attempts of    *)
(* one task use one key; the sanitized name has the length of the job      *)
(* name, keeps every code unit of [A-Za-z0-9_-] in place and has '_' in    *)
(* place of every other one ("build #1/linux" gives build__1_linux).       *)
build__1_linux ==
  << 98, 117, 105, 108, 100, 95, 95, 49, 95, 108, 105, 110, 117, 120 >>

sanitizedAsStated(name, out) ==
  /\ Len(out) = Len(name)
  /\ \A k \in 1..Len(name) :
       /\ allowedUnit(out[k])
       /\ out[k] = (IF allowedUnit(name[k]) THEN name[k] ELSE 95)

C30_KeyDeterminism ==
  \A t \in DOMAIN task :
    /\ Cardinality(task[t].keys) <= 1
    /\ (task[t].transfers > 0) => (task[t].keys # {})
    /\ \A key \in task[t].keys :
         /\ key.s3LogPath =
              (IF variant = "src" THEN run.s3LogPath ELSE "build-logs")
         /\ key.workflowRunId = run.workflowRunId
         /\ key.timestampSuffix = logs[t].timestamp
         /\ key.date * DayMs <= logs[t].timestamp
         /\ logs[t].timestamp < (key.date + 1) * DayMs
         /\ sanitizedAsStated(logs[t].jobName, key.sanitizedJobName)
         /\ (logs[t].jobName = BuildLinux) =>
              (key.sanitizedJobName = build__1_linux)

(* "build #1/linux" uploaded at the second attempt *)
C30_Witness ==
  /\ N = 1 /\ logs[1].jobName = BuildLinux
  /\ task[1].st = "succeeded" /\ task[1].transfers = 2
  /\ Cardinality(task[1].keys) = 1

(* ========================= properties of run() ========================= *)
(* uploadAllLogs was called and has returned *)
uploadReturned ==
  /\ pc \in {"returned", "notify", "done"}
  /\ N > 0
  /\ \A t \in Jobs : Settled(task[t])

(* C22: run() reports upload-status 'success' exactly when uploadAllLogs   *)
(* returned at least one result; when it returned none, run() fails with   *)
(* 'Failed to upload any logs' and the notifier is never called.           *)
C22_SuccessIffResults ==
  /\ (run.uploadStatus = "success") <=>
       (uploadReturned /\ Len(returned) > 0 /\ pc # "returned")
  /\ (run.settled # "pending") =>
       ((run.outputs.uploadStatus = "success") <=>
          (uploadReturned /\ Len(returned) > 0))
  /\ (uploadReturned /\ Len(returned) = 0 /\ pc = "done") =>
       /\ run.failed = "Failed to upload any logs"
       /\ run.settled = "rejected"
  /\ (run.calls.notify > 0) => (uploadReturned /\ Len(returned) > 0)

(* one of two logs was uploaded and the notification failed: upload-status *)
(* is 'success' all the same                                               *)
C22_Witness ==
  /\ pc = "done" /\ N = 2 /\ Len(returned) = 1
  /\ run.outputs.uploadStatus = "success"
  /\ run.outputs.notificationStatus = "failed"
  /\ run.failed = "Upload notification failed"

notFailedBuild ==
  /\ run.conclusion \in {"success", "neutral", "skipped"}
  /\ ~run.act

C25_NoSecretLogged ==
  run.logged \cap {"apiKey", "secretAccessKey", "sessionToken"} = {}

(* C26: when an input fails validation, run() calls setFailed with the     *)
(* validation message, has made no external call, and its promise          *)
(* resolves.                                                               *)
C26_ValidationFailureResolves ==
  LET message == inputsError(run.version, run.inputs, run.act) IN
  (run.version = "httpClient" /\ message # "ok" /\ pc # "inputs") =>
    /\ run.failed = message
    /\ run.calls = NoCalls
    /\ N = 0
    /\ run.settled = "resolved"

(* C27: whatever the texts of retry-attempts and retry-delay, run() either *)
(* fails with a validation error before any upload or hands the uploader   *)
(* retry options with an integer maxAttempts in 1..10, initialDelay > 0,   *)
(* maxDelay >= initialDelay and backoffFactor >= 1.                        *)
wellFormed(opts) ==
  /\ opts.maxAttempts # NaN
  /\ opts.maxAttempts \in 1..10
  /\ opts.initialDelay # NaN
  /\ opts.initialDelay > 0
  /\ opts.maxDelay >= opts.initialDelay
  /\ opts.backoffFactor >= 1

C27_RetryPolicyWellFormed ==
  (run.version = "httpClient" /\ pc # "inputs") =>
     IF inputsError(run.version, run.inputs, run.act) # "ok"
     THEN pc = "done" /\ N = 0 /\ run.settled # "resolved"
     ELSE wellFormed(retryOptions)

(* ============ properties of the credentials and token clients ========== *)
(* the test as stated: the credential expires at a date and the clock is  *)
(* more than five minutes short of it                                     *)
usableAsStated(c, t) ==
  /\ c.expiration \notin {NoExpiration, NaN}
  /\ t < c.expiration - 5 * 60 * 1000

(* a call of refreshCredentialsIfNeeded has just returned or thrown *)
refreshed == credentialsClient'.turn # credentialsClient.turn

(* C31 as stated: areCredentialsValid reports a credential usable exactly *)
(* when now < expiresAt - 5 minutes, and refreshCredentialsIfNeeded calls *)
(* the issuer if and only if no credential is cached or the cached one is *)
(* not usable by that test.  A credential without expiration refutes it.  *)
C31_RefreshWhenStale_Stated ==
  /\ [](credentials # NoCred =>
          (areCredentialsValid(credentials, now)
             <=> usableAsStated(credentials, now)))
  /\ [][refreshed =>
          (credentialsClient'.issuerCalled
             <=> (credentials = NoCred
                    \/ ~usableAsStated(credentials, now)))]_vars

(* C31: areCredentialsValid reports a credential usable exactly when it   *)
(* carries no expiration or now < expiresAt - 5 minutes (an expiration    *)
(* that is no date is never usable); refreshCredentialsIfNeeded calls the *)
(* issuer if and only if no credential is cached or the cached one is not *)
(* usable by that test, and otherwise returns the cached credential.      *)
C31_RefreshWhenStale ==
  /\ [](credentials # NoCred =>
          (areCredentialsValid(credentials, now)
             <=> (credentials.expiration = NoExpiration
                    \/ usableAsStated(credentials, now))))
  /\ [][refreshed =>
          /\ credentialsClient'.issuerCalled
               <=> (credentials = NoCred
                      \/ ~(credentials.expiration = NoExpiration
                             \/ usableAsStated(credentials, now)))
          /\ ~credentialsClient'.issuerCalled =>
               (credentials' = credentials /\ ~credentialsClient'.threw)
       ]_vars

(* a credential without expiration was handed in an hour after the login  *)
(* and came back without a call of the issuer                             *)
C31_Witness ==
  /\ credentialsClient.called
  /\ ~credentialsClient.issuerCalled
  /\ credentials.expiration = NoExpiration
  /\ now >= Hour

(* the session holds no token a login stored that is still within its    *)
(* hour: nobody logged in, logout was called since, or the hour is over   *)
sessionOver ==
  \/ tokenStorage.logins = 0
  \/ tokenStorage.loggedOut
  \/ now > tokenStorage.storedAt + 60 * 60 * 1000

(* C39: getToken returns a token only if a login stored it and its hour   *)
(* has not passed, and then it is the token of the last login; once the   *)
(* hour has passed or logout was called, getToken returns null,           *)
(* isAuthenticated is false and getAuthHeaders fails until the next       *)
(* login that succeeds; isTokenValid is true exactly when getToken is     *)
(* not null; and every answer given says the same.                        *)
C39_NoStaleToken ==
  /\ [](LET token == getToken(tokenStorage, now).value IN
        /\ token # NullToken => (~sessionOver /\ token = tokenStorage.logins)
        /\ sessionOver =>
             /\ token = NullToken
             /\ ~isAuthenticated(tokenStorage, now)
             /\ getAuthHeaders(tokenStorage, now) = "threw"
        /\ isTokenValid(tokenStorage, now) <=> token # NullToken)
  /\ [][tokenStorage'.answer # tokenStorage.answer =>
          (tokenStorage'.answer.result \in {"null", "false", "threw"}
             <=> sessionOver)]_vars

(* the second login's token has outlived its hour and getToken has        *)
(* answered null                                                          *)
C39_Witness ==
  /\ tokenStorage.logins = 2
  /\ ~tokenStorage.loggedOut
  /\ now > tokenStorage.storedAt + Hour
  /\ tokenStorage.token = NullToken
  /\ tokenStorage.answer.result = "null"

(* ============== properties of the order of the outcomes ================ *)
(* where the outcome of task t stands in a list of outcomes, 0 if absent  *)
position(list, t) ==
  IF \E k \in DOMAIN list : list[k].jobName = t
  THEN CHOOSE k \in DOMAIN list : list[k].jobName = t
  ELSE 0

(* u comes before t in the list when both stand in it *)
before(list, u, t) ==
  (position(list, u) > 0 /\ position(list, t) > 0) =>
    position(list, u) < position(list, t)

(* u has settled while t, of the same slice, is still in flight *)
settlesFirst(u, t) ==
  /\ u \in DOMAIN task /\ t \in DOMAIN task
  /\ pc = "batch"
  /\ u \in batch /\ t \in batch
  /\ Settled(task[u])
  /\ task[t].started /\ ~Settled(task[t])

(* C32 as stated: within a slice the outcomes are recorded in the order   *)
(* in which the tasks settle, whatever their positions: a task that       *)
(* settles before another of its slice stands before it in results and in *)
(* errors.  Two uploads that succeed in reverse order refute it.          *)
C32_SettleOrder_Stated ==
  \A u \in 1..MaxLogs, t \in 1..MaxLogs :
    [](settlesFirst(u, t) =>
         [](before(results, u, t) /\ before(errors, u, t)))

(* C32: within a slice the failures are recorded in errors in the order   *)
(* in which the tasks fail, whatever their positions, while the results   *)
(* of the tasks that succeed are recorded when the whole slice has        *)
(* settled, in the order of the input list.                               *)
C32_SettleOrder ==
  /\ \A u \in 1..MaxLogs, t \in 1..MaxLogs :
       [](settlesFirst(u, t) => [](before(errors, u, t)))
  /\ [](\A u \in DOMAIN task, t \in DOMAIN task :
          /\ u < t => before(results, u, t)
          /\ (pc = "batch" /\ u \in batch) => position(results, u) = 0)

(* the second task of a slice failed before the first did, and stands     *)
(* before it in errors                                                    *)
C32_Witness ==
  /\ Len(errors) >= 2
  /\ errors[1].jobName > errors[2].jobName
  /\ sliceIndex(errors[1].jobName) = sliceIndex(errors[2].jobName)

(* the tasks of the list stand in it in the order of the input *)
inInputOrder(list) ==
  \A j, k \in DOMAIN list : j < k => list[j].jobName < list[k].jobName

(* C35: the results uploadAllLogs collects and returns are in the order   *)
(* of the input list, and the first result returned, whose location run   *)
(* reports as s3-url, is that of the earliest task that succeeded.        *)
C35_ResultsInInputOrder ==
  /\ inInputOrder(results)
  /\ inInputOrder(returned)
  /\ (pc = "returned" /\ returned # << >>) =>
       /\ task[returned[1].jobName].st = "succeeded"
       /\ \A t \in Jobs : t < returned[1].jobName => task[t].st = "failed"
       /\ {returned[k].jobName : k \in DOMAIN returned}
            = {t \in Jobs : task[t].st = "succeeded"}

(* uploadAllLogs has returned the results of the second and the third     *)
(* task of a slice of three, the first having failed                      *)
C35_Witness ==
  /\ pc = "returned"
  /\ concurrencyLimit >= 3
  /\ Len(returned) = 2
  /\ returned[1].jobName = 2
  /\ returned[2].jobName = 3

(* ================== properties of the empty list ======================= *)
(* uploadAllLogs was handed the empty list: it has returned the empty     *)
(* result or is about to, and no upload was created                       *)
emptyUpload ==
  (N = 0 /\ pc \in {"constructed", "batch", "pause", "returned", "raised"}) =>
    /\ pc \in {"constructed", "returned"}
    /\ returned = << >> /\ results = << >> /\ errors = << >>
    /\ task = << >>

(* run() has downloaded the logs and found none *)
emptyRun == run.calls.logs = 1 /\ N = 0

(* C34 as stated: on the empty list uploadAllLogs returns the empty       *)
(* result without a transfer attempt, and run requests no credential,     *)
(* uploads nothing, does not notify and reports notification-status       *)
(* 'not-attempted'.  The credential request that validates the API key    *)
(* refutes it.                                                            *)
C34_EmptyList_Stated ==
  /\ emptyUpload
  /\ emptyRun =>
       /\ run.calls.credentials = 0
       /\ run.calls.notify = 0
       /\ pc = "done" /\ run.settled = "resolved"
       /\ run.outputs.notificationStatus = "not-attempted"

(* C34: on the empty list uploadAllLogs returns the empty result without  *)
(* a transfer attempt; run, when the logs it downloaded are none, makes   *)
(* no credential request beyond the one that validated the API key        *)
(* before the workflow run was looked up, constructs no uploader, uploads *)
(* nothing, does not notify, and returns with upload-status 'failed',     *)
(* files-uploaded 0 and notification-status 'not-attempted'.              *)
C34_EmptyList ==
  /\ emptyUpload
  /\ emptyRun =>
       /\ run.calls.credentials = 1
       /\ run.calls.notify = 0
       /\ credentials = NoCred /\ s3Client = NoCred
       /\ pc = "done" /\ run.settled = "resolved"
       /\ run.outputs.uploadStatus = "failed"
       /\ run.outputs.filesUploaded = 0
       /\ run.outputs.notificationStatus = "not-attempted"

(* run() has returned after finding no logs *)
C34_Witness ==
  /\ emptyRun
  /\ run.settled = "resolved"
  /\ run.outputs.notificationStatus = "not-attempted"

(* ================= properties of the outputs of run() ================== *)
(* C38: the outputs run() has set agree with what happened:               *)
(* notification-status 'success' only with upload-status 'success';       *)
(* upload-status 'success' only with files-uploaded equal to the number   *)
(* of results uploadAllLogs returned, which is positive; and when the     *)
(* notifier fails after a successful upload, the failure outputs keep     *)
(* upload-status 'success' and files-uploaded as they were.  The same     *)
(* holds of the locals the outputs are set from.                          *)
C38_OutputsConsistent ==
  /\ run.outputs.notificationStatus = "success" =>
       run.outputs.uploadStatus = "success"
  /\ run.notificationStatus = "success" => run.uploadStatus = "success"
  /\ run.outputs.uploadStatus = "success" =>
       /\ run.outputs.filesUploaded = Len(returned)
       /\ run.outputs.filesUploaded > 0
       /\ pc = "done"
  /\ run.uploadStatus = "success" =>
       (run.filesUploaded = Len(returned) /\ run.filesUploaded > 0)
  /\ run.failed = "Upload notification failed" =>
       /\ run.settled = "rejected"
       /\ run.outputs.uploadStatus = "success"
       /\ run.outputs.filesUploaded = run.filesUploaded
       /\ run.outputs.filesUploaded = Len(returned)
       /\ run.outputs.notificationStatus = "failed"

(* the notifier failed after two logs had been uploaded *)
C38_Witness ==
  /\ run.failed = "Upload notification failed"
  /\ run.outputs.uploadStatus = "success"
  /\ run.outputs.filesUploaded = 2

(* ================= properties of the object keys ======================= *)
(* C36: two distinct tasks of one call of uploadAllLogs never get the     *)
(* same object key: the keys of their logs differ, and so do the keys of  *)
(* the uploads created for them.  Two jobs whose names sanitize alike and *)
(* whose downloads ended in the same millisecond refute it.               *)
C36_DistinctKeys ==
  \A t \in DOMAIN task, u \in DOMAIN task :
    (t # u /\ task[t].started /\ task[u].started) =>
      /\ s3KeyOf(logs[t]) # s3KeyOf(logs[u])
      /\ task[t].keys \cap task[u].keys = {}

(* ================ properties of the consolidated log =================== *)
(* C33: uploadConsolidatedLogs calls uploadLogFile exactly once, for one  *)
(* log named "consolidated" whose content has one section per log of the  *)
(* list, in the order of the list, each made of the separator and header  *)
(* lines followed by the content of that log; it returns when that upload *)
(* succeeds and raises when it fails for good, however many attempts the  *)
(* upload took.                                                           *)
C33_ConsolidatedUpload ==
  /\ consolidated.st = "idle" => consolidated.calls = 0
  /\ consolidated.st # "idle" =>
       /\ consolidated.calls = 1
       /\ consolidated.log.jobName = consolidatedName
       /\ Len(consolidated.log.content) = Len(logs)
       /\ \A k \in DOMAIN logs :
            consolidated.log.content[k] =
              [separator |-> 80, jobName |-> logs[k].jobName,
               timestamp |-> logs[k].timestamp, content |-> logs[k].content]
       /\ consolidated.tk.keys \subseteq {s3KeyOf(consolidated.log)}
       /\ consolidated.st = "raised" <=> consolidated.tk.st = "failed"
       /\ consolidated.st = "returned" <=> consolidated.tk.st = "succeeded"
       /\ consolidated.st = "raised" =>
            consolidated.tk.calls = retryOptions.maxAttempts

(* the upload of the consolidated log of two logs or more failed for good *)
(* after its second transfer                                              *)
C33_Witness ==
  /\ consolidated.st = "raised"
  /\ Len(logs) >= 2
  /\ consolidated.tk.transfers = 2
  /\ consolidated.calls = 1

(* C37: uploadConsolidatedLogs called on a list after uploadAllLogs has   *)
(* processed it uploads the original content of every log, not a          *)
(* placeholder.  In the src build a log that uploadAllLogs uploaded       *)
(* refutes it.                                                            *)
C37_ConsolidatedKeepsContent ==
  (consolidated.st # "idle" /\ consolidated.afterBatch) =>
    \A k \in DOMAIN consolidated.log.content :
      consolidated.log.content[k].content = "log"

(* ==================== termination of uploadAllLogs ===================== *)
(* C40: under a fair scheduler, with every transfer attempt settling,     *)
(* every task of the list ends succeeded or failed and uploadAllLogs      *)
(* returns, whatever the list and the retry options.                      *)
C40_Terminates ==
  <>(/\ pc = "returned"
     /\ \A t \in DOMAIN task : Settled(task[t])
     /\ returned = results
     /\ Len(results) + Cardinality({t \in DOMAIN task :
                                      task[t].st = "failed"}) = N)

(* uploadAllLogs has returned from a list of two logs or more, one of     *)
(* which failed after a retry                                             *)
C40_Witness ==
  /\ pc = "returned"
  /\ N >= 2
  /\ \E t \in DOMAIN task : task[t].st = "failed"
  /\ \E t \in DOMAIN task : task[t].st = "succeeded"
  /\ retryOptions.maxAttempts = 2

====
